---- MODULE Spec2Model ----
(***************************************************************************)
(* PocketFlow-CPP: node lifecycle (prep -> retry-wrapped exec -> post),    *)
(* the retry controllers of Node and AsyncNode, the batch adapters, the    *)
(* graph orchestrators Flow and AsyncFlow, and the batch flows.            *)
(***************************************************************************)
EXTENDS Integers, Sequences, FiniteSets, TLC

\* ------------------------------------------------------------------ bounds
\* largest max_retries a node is constructed with
MaxAttempts == 2
\* largest number of times one node is activated in one traversal
MaxVisits == 3
\* longest array a batch node's prep returns
MaxItems == 2
\* parameter sets in the output of the prep of a parallel batch flow
MaxTraversals == 2
\* calls of run on the same node by one caller
MaxRuns == 2
\* successor registrations made while a graph is built
MaxBuilds == 2
\* the non-zero wait_ a node is constructed with, in milliseconds
BaseWait == 10

\* ------------------------------------------------------------ json values
JNull == [t |-> "null", v |-> 0]
JStr(s) == [t |-> "string", v |-> s]
JNum(i) == [t |-> "number", v |-> i]
JArr(s) == [t |-> "array", v |-> s]
JObj(f) == [t |-> "object", v |-> f]

is_null(j) == j.t = "null"
is_string(j) == j.t = "string"
is_array(j) == j.t = "array"
is_object(j) == j.t = "object"

\* json::dump() of the non-string, non-null actions the model uses
dump(j) == IF j.t = "number" THEN (IF j.v = 42 THEN "42" ELSE "0") ELSE "?"

\* mutant: a key already present keeps its value
update_keeps_old(a, b) == JObj(a.v @@ b.v)
\* json::update: keys of b are written over a
update(a, b) == JObj(b.v @@ a.v)

\* ------------------------------------------------------------- exceptions
Exc(type, src, call) == [type |-> type, src |-> src, call |-> call]
NoExc == Exc("none", "none", 0)
\* the error a user exec raises on its c-th call of one retry-controlled invocation
ExecError(c) == Exc("user_error", "exec", c)
PrepError == Exc("user_error", "prep", 0)
PostError == Exc("user_error", "post", 0)
FallbackError == Exc("user_error", "fallback", 0)
\* the error of a user exec_fallback that names the input it was called on
\* (the last field carries the value of the input)
ItemError(item) == Exc("user_error", "fallback_item", item.v)
\* std::runtime_error("AsyncNode requires async execution - use run_async() instead of run()")
CapabilityError == Exc("runtime_error", "async_required", 0)
\* std::runtime_error("Unexpected state in retry logic")
UnexpectedState == Exc("runtime_error", "Unexpected state in retry logic", 0)
\* std::runtime_error("Unexpected state in async retry logic")
UnexpectedStateAsync == Exc("runtime_error", "Unexpected state in async retry logic", 0)
\* `throw exc;` with exc a const std::exception& throws a copy of static type
\* std::exception: the dynamic type and the message of the original are lost
Slice(e) == Exc("std::exception", "sliced", 0)

\* ------------------------------------------------------------------ nodes
NoNode == "nullptr"
Nodes == {"A", "B", "C", "decision", "X", "Y", "D", "search", "answer", "F", "P", "Q"}
\* the flow that is run; "F" is a Flow used as a node of it
TheFlow == "flow"
Flows == {TheFlow, "F"}

NoSuccessors == [n \in Nodes |-> <<>>]

\* mutant: registering a successor drops the other successors of the node
next_replaces_all(succ, a, node, action) == [succ EXCEPT ![a] = (action :> node)]
\* BaseNode::next: successors_[action] = node
next(succ, a, node, action) == [succ EXCEPT ![a] = (action :> node) @@ succ[a]]

\* BaseNode::get_successor
get_successor(succ, n, action) ==
    IF action \in DOMAIN succ[n] THEN succ[n][action] ELSE NoNode

\* mutant: the lookup is made only for a non-default action
get_next_node_skip_default_action(succ, curr, action) ==
    IF curr = NoNode \/ action = "default" THEN NoNode
    ELSE IF get_successor(succ, curr, action) # NoNode
         THEN get_successor(succ, curr, action)
    ELSE get_successor(succ, curr, "default")

\* mutant: without a successor the loop stays on the current node
get_next_node_sticky(succ, curr, action) ==
    IF curr = NoNode THEN NoNode
    ELSE IF get_successor(succ, curr, action) # NoNode
         THEN get_successor(succ, curr, action)
    ELSE IF action # "default" /\ get_successor(succ, curr, "default") # NoNode
         THEN get_successor(succ, curr, "default")
    ELSE curr

\* mutant: the "default" successor is tried before the action's own
get_next_node_default_first(succ, curr, action) ==
    IF curr = NoNode THEN NoNode
    ELSE IF get_successor(succ, curr, "default") # NoNode
         THEN get_successor(succ, curr, "default")
    ELSE get_successor(succ, curr, action)

\* Flow::get_next_node
get_next_node(succ, curr, action) ==
    IF curr = NoNode THEN NoNode
    ELSE IF get_successor(succ, curr, action) # NoNode
         THEN get_successor(succ, curr, action)
    ELSE IF action # "default" /\ get_successor(succ, curr, "default") # NoNode
         THEN get_successor(succ, curr, "default")
    ELSE NoNode

\* mutant: a null action is looked up under the empty label
action_str_null_as_empty(action) ==
    IF is_string(action) THEN action.v
    ELSE IF ~is_null(action) THEN dump(action)
    ELSE ""

\* Flow::_orch, "Convert action to string for navigation"
action_str(action) ==
    IF is_string(action) THEN action.v
    ELSE IF ~is_null(action) THEN dump(action)
    ELSE "default"

\* Flow::_orch, "Combine flow parameters with node parameters"; json::update
\* turns a null target into an empty object first.  The flow's own params_ is
\* null or an object in every run of the model.
combined_params(flow_params, params) ==
    IF ~is_null(params) /\ is_object(params)
    THEN (IF is_null(flow_params) THEN update(JObj(<<>>), params)
          ELSE update(flow_params, params))
    ELSE flow_params

\* ------------------------------------------------------------- user code
\* What the overridden phases of the instrumented nodes compute.
\* exec: the result names its input and the call that produced it
ExecValue(arg, c) == JObj([input |-> arg, attempt |-> c])
\* an overriding exec_fallback that returns: names its input and the error
FallbackValue(arg, e) == JObj([fallback |-> TRUE, input |-> arg, error |-> e])

FallbackKinds == {"default", "returns", "throws"}
\* an exec_fallback whose error names its input
ItemFallback == "throws_item"

\* ------------------------------------------------------------- scenarios
\* The graphs are built with BaseNode::next, as A >> B >> C and
\* (decision - "x") >> X do.
Chain == next(next(NoSuccessors, "A", "B", "default"), "B", "C", "default")
Branch == next(next(NoSuccessors, "decision", "X", "x"), "decision", "Y", "y")
BranchDefault == next(Branch, "decision", "D", "default")
\* decide - "search" >> search; decide - "answer" >> answer;
\* search - "decide" >> decide; answer - "complete" >> nullptr;
Loop == next(next(next(next(NoSuccessors, "decision", "search", "search"),
                       "decision", "answer", "answer"),
                  "search", "decision", "decide"),
             "answer", NoNode, "complete")

\* decision->next(X, ""); decision >> D;
EmptyLabel == next(next(NoSuccessors, "decision", "X", ""), "decision", "D", "default")

\* A >> F >> B; F - "x" >> X; with F = Flow(P) and P - "go" >> Q
Nested == next(next(next(next(NoSuccessors, "A", "F", "default"),
                         "F", "B", "default"),
                    "F", "X", "x"),
               "P", "Q", "go")

FlowScenarios == {"chain", "branch", "branch_default", "loop", "empty"}
\* Flow(A) over A >> B >> C with an AsyncNode among them
\* Flow(A) over the nested graph; Flow(B) over B >> C with parameters
\* BatchFlow(B) over B >> C; Flow(decision) over the graph with the label ""
SyncFlowScenarios ==
    FlowScenarios \cup {"sync_mixed", "nested", "params", "batch_flow", "empty_label",
                        "node_params"}
\* AsyncFlow(A) over A >> B >> C mixing Node and AsyncNode, with parameters
\* AsyncBatchFlow(B) over B >> C; AsyncFlow(A) over the nested graph, with
\* F = AsyncFlow(P); AsyncFlow(decision) over the loop graph
\* AsyncFlow(A) over A >> B >> C, B being an AsyncNode that keeps the default
\* prep_async and post_async
AsyncFlowScenarios ==
    {"async_mixed", "async_batch_flow", "async_nested", "async_loop", "flow_default"}
\* AsyncParallelBatchFlow(B) over B >> C, the nodes being AsyncNodes
ParallelScenario == "parallel_batch_flow"
\* AsyncParallelBatchFlow(B) over the one synchronous Node B
RaceScenario == "parallel_retry"
\* A.run(shared) called again and again on one node, errors being caught
RerunScenario == "rerun"
\* Flow g(A) over A >> B >> C: g.run(shared), then g.start(node) and
\* g.run(shared) again
RestartScenario == "restart"
\* a graph is built over A, B and C with next, >> and (node - action) >> node,
\* and the start node of a flow is set with Flow::start
BuildScenario == "build"
BuildNodes == {"A", "B", "C"}
BuildLabels == {"default", "x"}
\* Node(max_retries, wait).run(shared) and AsyncNode(max_retries, wait)
\* .run_async(shared) on one node with several retries, to time the backoff
BackoffScenarios == {"backoff", "backoff_async"}
\* "single": A.run(shared) on one node; "single_async": A.run_async(shared)
Scenarios ==
    SyncFlowScenarios \cup AsyncFlowScenarios
    \cup {"single", "single_async", "single_default"}
    \cup BackoffScenarios

SyncKinds == {"Node", "BatchNode"}
AsyncKinds == {"AsyncNode", "AsyncBatchNode", "AsyncParallelBatchNode"}
BatchKinds == {"BatchNode", "AsyncBatchNode", "AsyncParallelBatchNode"}
\* Flow and the classes derived from it, as nodes of another flow
FlowKinds == {"Flow", "AsyncFlow"}

KindsOf(sc) ==
    CASE sc = "single" -> SyncKinds \cup AsyncKinds
      [] sc = RerunScenario -> SyncKinds
      [] sc = "single_async" -> AsyncKinds
      [] sc \in {"backoff_async", "single_default"} -> {"AsyncNode"}
      [] OTHER -> {"Node"}

\* the classes of the nodes of scenario sc
KindMaps(sc) ==
    CASE sc = "sync_mixed" ->
            {[n \in Nodes |-> IF n = m THEN "AsyncNode" ELSE "Node"] : m \in {"A", "B", "C"}}
      [] sc = "async_mixed" ->
            {[n \in Nodes |-> IF n \in S THEN "AsyncNode" ELSE "Node"] :
                S \in {{}, {"B"}, {"A", "C"}, {"A", "B", "C"}}}
      [] sc = "nested" -> {[n \in Nodes |-> IF n = "F" THEN "Flow" ELSE "Node"]}
      [] sc = "async_nested" ->
            {[n \in Nodes |-> IF n = "F" THEN "AsyncFlow"
                              ELSE IF n \in {"P", "Q"} THEN inner ELSE outer] :
                inner \in {"Node", "AsyncNode"}, outer \in {"Node", "AsyncNode"}}
      [] sc \in {"async_batch_flow", "async_loop"} ->
            {[n \in Nodes |-> k] : k \in {"Node", "AsyncNode"}}
      [] sc = ParallelScenario -> {[n \in Nodes |-> "AsyncNode"]}
      [] sc = "flow_default" -> {[n \in Nodes |-> IF n = "B" THEN "AsyncNode" ELSE "Node"]}
      [] OTHER -> {[n \in Nodes |-> k] : k \in KindsOf(sc)}

GraphOf(sc) ==
    CASE sc \in {"chain", "sync_mixed", "async_mixed", "flow_default", "params",
                 "node_params", "batch_flow",
                 "async_batch_flow", ParallelScenario, RestartScenario} -> Chain
      [] sc \in {"nested", "async_nested"} -> Nested
      [] sc = "empty_label" -> EmptyLabel
      [] sc = "branch" -> Branch
      [] sc = "branch_default" -> BranchDefault
      [] sc \in {"loop", "async_loop"} -> Loop
      [] OTHER -> NoSuccessors

StartOf(sc) ==
    CASE sc \in {"chain", "sync_mixed", "async_mixed", "flow_default", "nested",
                 "async_nested", RestartScenario} -> "A"
      [] sc \in {"params", "node_params", "batch_flow", "async_batch_flow", ParallelScenario,
                 RaceScenario} -> "B"
      [] sc \in {"branch", "branch_default", "loop", "empty_label", "async_loop"} ->
            "decision"
      [] OTHER -> NoNode

\* Flow::start_node_ of the flow that is run and of the nested flow
StartNodes(sc) == [f \in Flows |-> IF f = TheFlow THEN StartOf(sc)
                                   ELSE IF sc \in {"nested", "async_nested"} THEN "P"
                                   ELSE NoNode]

\* the class of the flow that is run
FlowClass(sc) ==
    CASE sc = "batch_flow" -> "BatchFlow"
      [] sc = "async_batch_flow" -> "AsyncBatchFlow"
      [] sc \in {ParallelScenario, RaceScenario} -> "AsyncParallelBatchFlow"
      [] sc \in SyncFlowScenarios \cup {RestartScenario} -> "Flow"
      [] sc \in AsyncFlowScenarios -> "AsyncFlow"
      [] OTHER -> "none"

\* how the nodes of scenario sc are constructed: Node(max_retries, wait) and
\* the override of exec_fallback
RetryChoices(sc) ==
    IF sc \in {"single", "single_async"} THEN (-1)..MaxAttempts
    ELSE IF sc \in FlowScenarios \cup {"single", "single_async", "sync_mixed", RerunScenario}
    THEN 0..MaxAttempts
    ELSE IF sc \in BackoffScenarios THEN {MaxAttempts + 2}
    ELSE IF sc = RaceScenario THEN 1..MaxAttempts ELSE {1}
WaitChoices(sc) ==
    IF sc \in FlowScenarios \cup {"single", "single_async"} \cup BackoffScenarios
    THEN {0, BaseWait} ELSE {0}
FallbackChoices(sc) ==
    IF sc = "single_async" THEN FallbackKinds \cup {ItemFallback}
    ELSE IF sc \in FlowScenarios \cup {"single", RerunScenario} THEN FallbackKinds
    ELSE IF sc = ParallelScenario THEN {"throws"}
    ELSE IF sc = RaceScenario THEN {"returns"}
    ELSE {"returns", "throws"}

\* Node is a virtual base of BatchNode and of AsyncNode, and Flow one of
\* BatchFlow: the constructor of the most derived class initialises it, with
\* the default arguments unless its initialiser list names the base
VirtualNodeKinds == {"BatchNode"} \cup AsyncKinds
VirtualFlowClasses == {"BatchFlow"}
\* whether the class the program derives names the virtual base in the
\* initialiser list of its constructor: Derived(m, w) : Node(m, w), AsyncNode(m, w)
\* does, Derived(m, w) : AsyncNode(m, w) does not; with the default arguments
\* (1, 0) the two construct the same node
BaseChoices(sc, kinds) ==
    IF \/ FlowClass(sc) \in VirtualFlowClasses
       \/ /\ \E n \in Nodes : kinds[n] \in VirtualNodeKinds
          /\ (RetryChoices(sc) # {1} \/ WaitChoices(sc) # {0})
    THEN BOOLEAN ELSE {TRUE}

\* explicit Node(int max_retries = 1, int wait_ms = 0), as the constructor
\* of a node of class k built with the arguments of c leaves the members
Node_ctor(k, c) ==
    IF k \in VirtualNodeKinds /\ ~c.base
    THEN [max_retries |-> 1, wait |-> 0]
    ELSE [max_retries |-> c.max_retries, wait |-> c.wait]

\* explicit Flow(std::shared_ptr<BaseNode> start = nullptr), as the
\* constructor of the flow of scenario sc built with its start node leaves
\* start_node_
Flow_ctor(sc, base) ==
    [f \in Flows |-> IF f = TheFlow /\ FlowClass(sc) \in VirtualFlowClasses /\ ~base
                     THEN NoNode ELSE StartNodes(sc)[f]]

\* parameter objects: flow.set_params(...) before the run, and what the
\* overridden prep of the flow returns
FlowParams(sc) ==
    CASE sc = "params" -> {JNull, JObj("a" :> 1), JObj("a" :> 1 @@ "c" :> 1)}
      [] sc = "node_params" -> {JNull, JObj("a" :> 1 @@ "c" :> 1)}
      [] sc \in {"async_mixed", "batch_flow", "async_batch_flow", ParallelScenario} ->
            {JNull, JObj("a" :> 1 @@ "c" :> 1)}
      [] OTHER -> {JNull}
ParamSets == {JObj("a" :> 2), JObj("b" :> 2)}
\* node->set_params(...) on every node before the run, in "node_params":
\* Flow(B) over B >> C
OwnParams == JObj("n" :> 1 @@ "a" :> 3)
NodeParams(sc) == IF sc = "node_params" THEN OwnParams ELSE JNull
\* an element of a batch flow's prep output that is not a parameter object
NonObjectElement == JNum(5)
\* arrays whose elements are parameter objects or not
MixedArrays(max) ==
    {JArr(s) : s \in UNION {[1..m -> {JObj("a" :> 2), NonObjectElement}] : m \in 1..max}}
\* what the prep of the flow that is run returns
FlowPrepOutputs(sc) ==
    CASE sc \in {"params", "node_params"} -> {JNull, JObj(<<>>)} \cup ParamSets
      [] sc = "async_mixed" -> {JNull} \cup ParamSets
      [] sc \in {"batch_flow", "async_batch_flow"} ->
            {JArr(s) : s \in UNION {[1..m -> ParamSets] : m \in 0..MaxItems}}
            \cup MixedArrays(MaxItems) \cup {JNull, JObj("a" :> 2)}
      [] sc = ParallelScenario ->
            {JArr(s) : s \in UNION {[1..m -> ParamSets] : m \in 0..MaxTraversals}}
            \cup MixedArrays(MaxTraversals) \cup {JNull, JObj("a" :> 2)}
      [] sc = RaceScenario ->
            {JArr(s) : s \in UNION {[1..m -> ParamSets] : m \in 0..MaxTraversals}}
            \cup {JNull}
      [] OTHER -> {JNull}

\* the actions the post of node n returns in scenario sc
PostActions(sc, n) ==
    CASE sc = "chain" -> {JStr("default"), JNull, JStr(""), JStr("x")}
      [] sc \in {"branch", "branch_default"} /\ n = "decision" ->
            {JStr("x"), JStr("y"), JStr("z"), JStr("default"), JNull, JNum(42)}
      [] sc = "empty_label" /\ n = "decision" ->
            {JStr(""), JNull, JStr("default"), JStr("x")}
      [] sc \in {"loop", "async_loop"} /\ n = "decision" -> {JStr("search"), JStr("answer")}
      [] sc \in {"loop", "async_loop"} /\ n = "search" -> {JStr("decide")}
      [] sc \in {"loop", "async_loop"} /\ n = "answer" -> {JStr("complete"), JNull}
      [] sc = "nested" /\ n = "P" -> {JStr("go"), JStr("x"), JStr("stop")}
      [] sc = "nested" /\ n = "Q" -> {JStr("x"), JStr("z"), JNull}
      [] sc = "async_nested" /\ n = "P" -> {JStr("go"), JStr("stop")}
      [] sc = "async_nested" /\ n = "Q" -> {JStr("x"), JNull}
      [] sc = "async_nested" -> {JStr("default")}
      [] sc \in {"batch_flow", "async_batch_flow", "async_mixed", "flow_default",
                 ParallelScenario, RaceScenario} ->
            {JStr("default")}
      [] OTHER -> {JStr("default"), JNull}

Count(seq, x) == Cardinality({i \in 1..Len(seq) : seq[i] = x})

\* ------------------------------------------------------------------ state
VARIABLES
    scenario,      \* which program is run
    successors_,   \* BaseNode::successors_ of every node
    start_node_,   \* Flow::start_node_ of every flow
    params_,       \* BaseNode::params_ of every node and of the flow
    kind,          \* the class of every node
    max_retries_,  \* Node::max_retries_
    wait_,         \* Node::wait_, milliseconds
    fallback_kind, \* how exec_fallback is overridden
    cur_retry_,    \* Node::cur_retry_
    shared,        \* the context: the nodes whose post has written to it
    pc,            \* position of the running call
    current,       \* Flow::_orch current
    last_action,   \* Flow::_orch last_action
    prep_res,      \* BaseNode::_run prep_res
    exec_res,      \* BaseNode::_run exec_res
    action,        \* BaseNode::_run post_res
    arg,           \* Node::_exec prep_res (the item, under a batch node)
    items,         \* BatchNode::_exec items still to process
    results,       \* BatchNode::_exec results
    exc,           \* the exception in flight
    last_err,      \* the exception caught by the retry loop
    result,        \* what run returned
    fails,         \* user exec: its first `fails` calls of this invocation throw
    tries,         \* exec calls made by this invocation of Node::_exec
    calls,         \* phase calls made in this activation
    post_args,     \* arguments of the last post call
    fb_args,       \* arguments of the last exec_fallback call
    trace,         \* nodes activated, in order
    acts,          \* actions returned by their posts, in order
    sleeps,        \* the backoff sleeps of this invocation of Node::_exec, in order
    plans,         \* the `fails` of every Node::_exec invocation of this activation
    tasks,         \* the std::async tasks running AsyncNode::_exec_async, by launch
    orch_params,   \* Flow::_orch / AsyncFlow::_orch_async params
    stack,         \* the callers of the running _orch: the frames of the outer flows
    flow_prep,     \* Flow::_run prep_res of the flow that is run
    bf_rest,       \* BatchFlow::_run: the batch parameter sets still to run
    travs,         \* the traversals started by the batch flow, in order
    flow_calls,    \* prep and post calls of the flow that is run
    threads,       \* AsyncParallelBatchFlow: the std::async tasks running _orch_async
    joined,        \* AsyncParallelBatchFlow: the futures the join loop has got
    raced,         \* a data race on the params_ of a node has happened
    returned,      \* what the last call of next, >> or Flow::start returned
    ctor,          \* how the nodes and the flow were constructed
    built          \* the successor registrations made, in order

cfgVars == <<scenario, successors_, start_node_, kind, max_retries_, wait_, fallback_kind,
             returned, built, ctor>>
flowVars == <<orch_params, stack, flow_prep, bf_rest, travs, flow_calls>>
parVars == <<threads, joined, raced>>
vars == <<cfgVars, params_, cur_retry_, shared, pc, current, last_action, prep_res,
          exec_res, action, arg, items, results, exc, last_err, result,
          fails, tries, sleeps, calls, post_args, fb_args, trace, acts, plans, tasks,
          flowVars, parVars>>

NoCalls == [prep |-> 0, exec |-> 0, fallback |-> 0, post |-> 0]

\* the values the prep of a node of kind k returns
PrepOutputs(k) ==
    IF k \in BatchKinds
    THEN {JArr(s) : s \in UNION {[1..m -> {JNum(1), JNum(2)}] : m \in 0..MaxItems}}
         \cup {JNum(1)}
    ELSE IF scenario \in {"batch_flow", "async_batch_flow", "async_mixed", "async_loop",
                           "flow_default"}
    THEN {JNum(1)}
    ELSE {JNum(1), JNum(2)}

\* ------------------------------------------------------------------- Init
\* the state after construction of one of the programs S
InitIn(S) ==
    /\ scenario \in S
    /\ successors_ = GraphOf(scenario)
    /\ params_ \in {[n \in Nodes \cup {TheFlow} |->
                        IF n = TheFlow THEN fp ELSE NodeParams(scenario)] :
                       fp \in FlowParams(scenario)}
    /\ kind \in KindMaps(scenario)
    /\ ctor \in [max_retries : RetryChoices(scenario), wait : WaitChoices(scenario),
                 base : BaseChoices(scenario, kind)]
    /\ start_node_ = Flow_ctor(scenario, ctor.base)
    /\ max_retries_ = [n \in Nodes |-> Node_ctor(kind[n], ctor).max_retries]
    /\ wait_ = [n \in Nodes |-> Node_ctor(kind[n], ctor).wait]
    /\ fallback_kind \in {[n \in Nodes |-> f] : f \in FallbackChoices(scenario)}
    /\ cur_retry_ = [n \in Nodes |-> 0]
    /\ shared = <<>>
    /\ pc = "start"
    /\ current = NoNode
    /\ last_action = JNull
    /\ prep_res = JNull
    /\ exec_res = JNull
    /\ action = JNull
    /\ arg = JNull
    /\ items = <<>>
    /\ results = <<>>
    /\ exc = NoExc
    /\ last_err = NoExc
    /\ result = JNull
    /\ fails = 0
    /\ tries = 0
    /\ sleeps = <<>>
    /\ calls = NoCalls
    /\ post_args = <<>>
    /\ fb_args = <<>>
    /\ trace = <<>>
    /\ acts = <<>>
    /\ plans = <<>>
    /\ tasks = <<>>
    /\ orch_params = JNull
    /\ stack = <<>>
    /\ flow_prep = JNull
    /\ bf_rest = <<>>
    /\ travs = <<>>
    /\ flow_calls = [prep |-> 0, post |-> 0]
    /\ threads = <<>>
    /\ joined = 0
    /\ raced = FALSE
    /\ returned = NoNode
    /\ built = <<>>

Init == InitIn(Scenarios)

\* an exception leaves the running call: nothing on the synchronous path
\* catches it, so it reaches the caller of run
Throw(e) ==
    /\ exc' = e
    /\ pc' = "failed"

\* ------------------------------------------------------ graph construction
\* node - "action": the helper object remembers the node and the action
ConditionalTransition(src, label) == [src_ |-> src, action_ |-> label]

\* src->next(node, label), made by the expression op: the successor is
\* registered and the node is returned
Register(op, src, node, label) ==
    /\ scenario = BuildScenario
    /\ pc = "start"
    /\ Len(built) < MaxBuilds
    /\ successors_' = next(successors_, src, node, label)
    /\ returned' = node
    /\ built' = Append(built, [op |-> op, src |-> src, node |-> node, label |-> label])
    /\ UNCHANGED <<scenario, start_node_, kind, max_retries_, wait_, fallback_kind, ctor,
                   params_, cur_retry_, shared, pc, current, last_action, prep_res,
                   exec_res, action, arg, items, results, exc, last_err, result,
                   fails, tries, sleeps, calls, post_args, fb_args, trace, acts, plans,
                   tasks, flowVars, parVars>>

\* std::shared_ptr<BaseNode> start(std::shared_ptr<BaseNode> start_node) {
\*     start_node_ = std::move(start_node); return start_node_; }
Flow_start(f, node) ==
    /\ start_node_' = [start_node_ EXCEPT ![f] = node]
    /\ returned' = node

\* flow.start(b) among the statements that build the graph; flow.start(a) >> b
\* chains on the node it returns
Build_Flow_start ==
    /\ scenario = BuildScenario
    /\ pc = "start"
    /\ Len(built) < MaxBuilds
    /\ \E b \in BuildNodes \cup {NoNode} :
          /\ Flow_start(TheFlow, b)
          /\ built' = Append(built, [op |-> "start", src |-> TheFlow, node |-> b])
    /\ UNCHANGED <<scenario, successors_, kind, max_retries_, wait_, fallback_kind, ctor,
                   params_, cur_retry_, shared, pc, current, last_action, prep_res,
                   exec_res, action, arg, items, results, exc, last_err, result,
                   fails, tries, sleeps, calls, post_args, fb_args, trace, acts, plans,
                   tasks, flowVars, parVars>>

\* a->next(b, action); a->next(nullptr, action) registers a null successor
BaseNode_next ==
    \E a \in BuildNodes, b \in BuildNodes \cup {NoNode}, l \in BuildLabels :
        Register("next", a, b, l)

\* a >> b: return left->next(std::move(right), "default");
operator_shift ==
    \E a \in BuildNodes, b \in BuildNodes \cup {NoNode} :
        Register(">>", a, b, "default")

\* ... >> b, the left operand being the node the expression before returned
operator_shift_chained ==
    /\ returned # NoNode
    /\ built # <<>>
    /\ \E b \in BuildNodes \cup {NoNode} : Register("chain", returned, b, "default")

\* (a - action) >> b: return src_->next(std::move(target), action_);
ConditionalTransition_shift ==
    \E a \in BuildNodes, b \in BuildNodes \cup {NoNode}, l \in BuildLabels :
        LET t == ConditionalTransition(a, l)
        IN Register("cond", t.src_, b, t.action_)

\* ------------------------------------------------------------ entry points
\* the flow whose _orch is running
RunningFlow == IF stack = <<>> THEN TheFlow ELSE stack[Len(stack)].node

\* where the action of a finished node lifecycle goes: to the caller of run or
\* run_async, or to the orchestration loop that called _run or run_async
after_run ==
    CASE stack # <<>> -> "route"
      [] FlowClass(scenario) = "none" -> "done"
      [] FlowClass(scenario) \in {"Flow", "BatchFlow"} -> "route"
      [] OTHER -> "aroute"

\* mutant: the default post of a flow returns an empty json
Flow_post_null(orch_res) == JNull
\* Flow::post, the default: return exec_res;
Flow_post(orch_res) == orch_res

\* BaseNode::run on a single node: _run(shared), which on an AsyncNode is
\* AsyncNode::_run and throws
NodeRun ==
    /\ pc = "start"
    /\ scenario \in {"single", "backoff", RerunScenario}
    /\ current' = "A"
    /\ trace' = Append(trace, "A")
    /\ calls' = NoCalls
    /\ plans' = <<>>
    /\ IF kind["A"] \in AsyncKinds
       THEN Throw(CapabilityError)
       ELSE pc' = "prep" /\ UNCHANGED exc
    /\ UNCHANGED <<cfgVars, parVars, flowVars, params_, cur_retry_, shared, last_action, prep_res,
                   exec_res, action, arg, items, results, last_err, result,
                   fails, tries, sleeps, post_args, fb_args, acts, tasks>>

\* the caller of run has its result, or has caught its error, and calls
\* run(shared) on the same node again
RunAgain ==
    /\ pc \in {"done", "failed"}
    /\ scenario = RerunScenario
    /\ Len(trace) < MaxRuns
    /\ trace' = Append(trace, "A")
    /\ calls' = NoCalls
    /\ plans' = <<>>
    /\ pc' = "prep"
    /\ UNCHANGED <<cfgVars, parVars, flowVars, params_, cur_retry_, shared, current, last_action,
                   prep_res, exec_res, action, arg, items, results, exc, last_err, result,
                   fails, tries, sleeps, post_args, fb_args, acts, tasks>>

\* flow.start(node) before the run, on a flow constructed without start node
FlowStart ==
    /\ pc = "start"
    /\ FlowClass(scenario) # "none"
    /\ start_node_[TheFlow] = NoNode
    /\ StartOf(scenario) # NoNode
    /\ Flow_start(TheFlow, StartOf(scenario))
    /\ UNCHANGED <<scenario, successors_, kind, max_retries_, wait_, fallback_kind, ctor,
                   built, params_, cur_retry_, shared, pc, current, last_action, prep_res,
                   exec_res, action, arg, items, results, exc, last_err, result,
                   fails, tries, sleeps, calls, post_args, fb_args, trace, acts, plans,
                   tasks, flowVars, parVars>>

\* g.start(node) after a run of the flow has ended, the caller having caught
\* what the run threw; then g.run(shared) again
FlowStartAgain ==
    /\ pc \in {"done", "failed"}
    /\ scenario = RestartScenario
    /\ flow_calls.prep < MaxRuns
    /\ \E n \in BuildNodes : Flow_start(TheFlow, n)
    /\ pc' = "start"
    /\ exc' = NoExc
    /\ UNCHANGED <<scenario, successors_, kind, max_retries_, wait_, fallback_kind, ctor,
                   built, params_, cur_retry_, shared, current, last_action, prep_res,
                   exec_res, action, arg, items, results, last_err, result,
                   fails, tries, sleeps, calls, post_args, fb_args, trace, acts, plans,
                   tasks, flowVars, parVars>>

\* Flow::_run up to the loop of _orch: the flow's own prep, then
\* _orch(shared, prep_res): a flow without start node returns json{}
FlowRun ==
    /\ pc = "start"
    /\ FlowClass(scenario) = "Flow"
    /\ \E v \in FlowPrepOutputs(scenario) : flow_prep' = v
    /\ flow_calls' = [flow_calls EXCEPT !.prep = @ + 1]
    /\ orch_params' = flow_prep'
    /\ last_action' = JNull
    /\ current' = start_node_[TheFlow]
    /\ pc' = "orch"
    /\ UNCHANGED <<cfgVars, parVars, params_, cur_retry_, shared, prep_res, exec_res, action,
                   arg, items, results, exc, last_err, result, stack, bf_rest, travs,
                   fails, tries, sleeps, calls, post_args, fb_args, trace, acts, plans, tasks>>

\* --------------------------------------------------------- Flow::_orch
\* mutant: the merged parameters are written over the ones the node holds
assigned_params_keeps_keys(n, combined) ==
    IF ~is_null(combined) /\ is_object(combined)
    THEN [params_ EXCEPT ![n] = IF is_object(@) THEN update(@, combined) ELSE combined]
    ELSE params_
\* "Set parameters on the node copy": node_copy is the node itself
assigned_params(n, combined) ==
    IF ~is_null(combined) /\ is_object(combined)
    THEN [params_ EXCEPT ![n] = combined]
    ELSE params_

\* mutant: an AsyncNode is run through BaseNode::_run like any other node
OrchIter_no_capability_check ==
    /\ pc = "orch"
    /\ current # NoNode
    /\ Count(trace, current) < MaxVisits
    /\ params_' = assigned_params(current, combined_params(params_[RunningFlow], orch_params))
    /\ CASE kind[current] \in FlowKinds ->
              /\ stack' = Append(stack, [node |-> current, last_action |-> last_action,
                                         params |-> orch_params, from |-> Len(trace)])
              /\ orch_params' = JNull
              /\ last_action' = JNull
              /\ current' = start_node_[current]
              /\ UNCHANGED <<pc, exc, trace, calls, plans>>
         [] OTHER ->
              /\ trace' = Append(trace, current)
              /\ calls' = NoCalls
              /\ plans' = <<>>
              /\ pc' = "prep"
              /\ UNCHANGED <<exc, current, last_action, orch_params, stack>>
    /\ UNCHANGED <<cfgVars, parVars, cur_retry_, shared, prep_res, exec_res,
                   action, arg, items, results, last_err, result,
                   fails, tries, sleeps, post_args, fb_args, acts, tasks,
                   flow_prep, bf_rest, travs, flow_calls>>

\* head of the loop: merge the parameters, assign them, call node_copy->_run,
\* which is BaseNode::_run, AsyncNode::_run (throws) or, on a nested flow,
\* Flow::_run: its prep (the default, null) and its own _orch
OrchIter ==
    /\ pc = "orch"
    /\ current # NoNode
    /\ Count(trace, current) < MaxVisits
    /\ params_' = assigned_params(current, combined_params(params_[RunningFlow], orch_params))
    /\ CASE kind[current] \in AsyncKinds ->
              /\ trace' = Append(trace, current)
              /\ calls' = NoCalls
              /\ plans' = <<>>
              /\ Throw(CapabilityError)
              /\ UNCHANGED <<current, last_action, orch_params, stack>>
         [] kind[current] \in FlowKinds ->
              /\ stack' = Append(stack, [node |-> current, last_action |-> last_action,
                                         params |-> orch_params, from |-> Len(trace)])
              /\ orch_params' = JNull
              /\ last_action' = JNull
              /\ current' = start_node_[current]
              /\ UNCHANGED <<pc, exc, trace, calls, plans>>
         [] OTHER ->
              /\ trace' = Append(trace, current)
              /\ calls' = NoCalls
              /\ plans' = <<>>
              /\ pc' = "prep"
              /\ UNCHANGED <<exc, current, last_action, orch_params, stack>>
    /\ UNCHANGED <<cfgVars, parVars, cur_retry_, shared, prep_res, exec_res,
                   action, arg, items, results, last_err, result,
                   fails, tries, sleeps, post_args, fb_args, acts, tasks,
                   flow_prep, bf_rest, travs, flow_calls>>

\* mutant: the successor is resolved with the previous iteration's action
OrchRoute_stale ==
    /\ pc = "route"
    /\ last_action' = action
    /\ current' = get_next_node(successors_, current, action_str(last_action))
    /\ pc' = "orch"
    /\ UNCHANGED <<cfgVars, parVars, flowVars, params_, cur_retry_, shared, prep_res, exec_res,
                   action, arg, items, results, exc, last_err, result,
                   fails, tries, sleeps, calls, post_args, fb_args, trace, acts, plans, tasks>>

\* mutant: without a successor the loop goes back to the start node
OrchRoute_restart ==
    /\ pc = "route"
    /\ last_action' = action
    /\ current' = LET nxt == get_next_node(successors_, current, action_str(action))
                  IN IF nxt = NoNode THEN start_node_[RunningFlow] ELSE nxt
    /\ pc' = "orch"
    /\ UNCHANGED <<cfgVars, parVars, flowVars, params_, cur_retry_, shared, prep_res, exec_res,
                   action, arg, items, results, exc, last_err, result,
                   fails, tries, sleeps, calls, post_args, fb_args, trace, acts, plans, tasks>>

\* mutant: the loop ends rather than activate a node a second time
OrchRoute_cycle_guard ==
    /\ pc = "route"
    /\ last_action' = action
    /\ current' = LET nxt == get_next_node(successors_, current, action_str(action))
                  IN IF Count(trace, nxt) > 0 THEN NoNode ELSE nxt
    /\ pc' = "orch"
    /\ UNCHANGED <<cfgVars, parVars, flowVars, params_, cur_retry_, shared, prep_res, exec_res,
                   action, arg, items, results, exc, last_err, result,
                   fails, tries, sleeps, calls, post_args, fb_args, trace, acts, plans, tasks>>

\* tail of the loop: action string, last_action, get_next_node
OrchRoute ==
    /\ pc = "route"
    /\ last_action' = action
    /\ current' = get_next_node(successors_, current, action_str(action))
    /\ pc' = "orch"
    /\ UNCHANGED <<cfgVars, parVars, flowVars, params_, cur_retry_, shared, prep_res, exec_res,
                   action, arg, items, results, exc, last_err, result,
                   fails, tries, sleeps, calls, post_args, fb_args, trace, acts, plans, tasks>>

\* the loop of the flow that is run ends (or never starts: no start node);
\* Flow::_run hands the last action to the flow's post, whose default returns it
OrchReturn ==
    /\ pc = "orch"
    /\ current = NoNode
    /\ stack = <<>>
    /\ FlowClass(scenario) = "Flow"
    /\ flow_calls' = [flow_calls EXCEPT !.post = @ + 1]
    /\ result' = Flow_post(last_action)
    /\ pc' = "done"
    /\ UNCHANGED <<cfgVars, parVars, params_, cur_retry_, shared, current, last_action, prep_res,
                   exec_res, action, arg, items, results, exc, last_err,
                   fails, tries, sleeps, calls, post_args, fb_args, trace, acts, plans, tasks,
                   orch_params, stack, flow_prep, bf_rest, travs>>

\* the loop of a nested flow ends: its Flow::_run hands the last action to its
\* post and returns the result to the loop of the outer flow as the action of
\* the nested flow
NestedReturn ==
    /\ pc = "orch"
    /\ current = NoNode
    /\ stack # <<>>
    /\ action' = Flow_post(last_action)
    /\ current' = stack[Len(stack)].node
    /\ last_action' = stack[Len(stack)].last_action
    /\ orch_params' = stack[Len(stack)].params
    /\ stack' = SubSeq(stack, 1, Len(stack) - 1)
    /\ pc' = IF Len(stack) = 1 /\ FlowClass(scenario) \notin {"Flow", "BatchFlow"}
             THEN "aroute" ELSE "route"
    /\ UNCHANGED <<cfgVars, parVars, params_, cur_retry_, shared, prep_res,
                   exec_res, arg, items, results, exc, last_err, result,
                   fails, tries, sleeps, calls, post_args, fb_args, trace, acts, plans, tasks,
                   flow_prep, bf_rest, travs, flow_calls>>

\* ------------------------------------------------------- BatchFlow::_run
\* "Combine flow parameters with individual batch parameters"
batch_combined(flow_params, batch_params) ==
    IF is_object(batch_params)
    THEN update(IF is_null(flow_params) THEN JObj(<<>>) ELSE flow_params, batch_params)
    ELSE flow_params

\* a traversal started for the batch parameter set p, the trace being of length from
NewTraversal(p, from) == [p |-> p, from |-> from, done |-> FALSE]

\* json prep_res = prep(shared); the loop runs over an array only
BatchFlowRun ==
    /\ pc = "start"
    /\ FlowClass(scenario) = "BatchFlow"
    /\ \E v \in FlowPrepOutputs(scenario) : flow_prep' = v
    /\ flow_calls' = [flow_calls EXCEPT !.prep = @ + 1]
    /\ bf_rest' = IF is_array(flow_prep') THEN flow_prep'.v ELSE <<>>
    /\ pc' = "bf_loop"
    /\ UNCHANGED <<cfgVars, parVars, params_, cur_retry_, shared, current, last_action, prep_res,
                   exec_res, action, arg, items, results, exc, last_err, result,
                   fails, tries, sleeps, calls, post_args, fb_args, trace, acts, plans, tasks,
                   orch_params, stack, travs>>

\* mutant: every traversal is run with the first batch parameter set
BatchFlow_next_first_params ==
    /\ pc = "bf_loop"
    /\ bf_rest # <<>>
    /\ orch_params' = batch_combined(params_[TheFlow], flow_prep.v[1])
    /\ travs' = Append(travs, NewTraversal(Head(bf_rest), Len(trace)))
    /\ bf_rest' = Tail(bf_rest)
    /\ last_action' = JNull
    /\ current' = start_node_[TheFlow]
    /\ pc' = "orch"
    /\ UNCHANGED <<cfgVars, parVars, params_, cur_retry_, shared, prep_res,
                   exec_res, action, arg, items, results, exc, last_err, result,
                   fails, tries, sleeps, calls, post_args, fb_args, trace, acts, plans, tasks,
                   stack, flow_prep, flow_calls>>

\* one turn of the loop: _orch(shared, combined_params) for the next batch
\* parameter set
BatchFlow_next ==
    /\ pc = "bf_loop"
    /\ bf_rest # <<>>
    /\ orch_params' = batch_combined(params_[TheFlow], Head(bf_rest))
    /\ travs' = Append(travs, NewTraversal(Head(bf_rest), Len(trace)))
    /\ bf_rest' = Tail(bf_rest)
    /\ last_action' = JNull
    /\ current' = start_node_[TheFlow]
    /\ pc' = "orch"
    /\ UNCHANGED <<cfgVars, parVars, params_, cur_retry_, shared, prep_res,
                   exec_res, action, arg, items, results, exc, last_err, result,
                   fails, tries, sleeps, calls, post_args, fb_args, trace, acts, plans, tasks,
                   stack, flow_prep, flow_calls>>

\* _orch returns to the loop of BatchFlow::_run, which drops its result
BatchFlow_orch_return ==
    /\ pc = "orch"
    /\ current = NoNode
    /\ stack = <<>>
    /\ FlowClass(scenario) = "BatchFlow"
    /\ travs' = [travs EXCEPT ![Len(travs)].done = TRUE]
    /\ pc' = "bf_loop"
    /\ UNCHANGED <<cfgVars, parVars, params_, cur_retry_, shared, current, last_action, prep_res,
                   exec_res, action, arg, items, results, exc, last_err, result,
                   fails, tries, sleeps, calls, post_args, fb_args, trace, acts, plans, tasks,
                   orch_params, stack, flow_prep, bf_rest, flow_calls>>

\* return post(shared, prep_res, json::object());
BatchFlow_post ==
    /\ pc = "bf_loop"
    /\ bf_rest = <<>>
    /\ flow_calls' = [flow_calls EXCEPT !.post = @ + 1]
    /\ result' = Flow_post(JObj(<<>>))
    /\ pc' = "done"
    /\ UNCHANGED <<cfgVars, parVars, params_, cur_retry_, shared, current, last_action, prep_res,
                   exec_res, action, arg, items, results, exc, last_err,
                   fails, tries, sleeps, calls, post_args, fb_args, trace, acts, plans, tasks,
                   orch_params, stack, flow_prep, bf_rest, travs>>

\* --------------------------------------------------------- BaseNode::_run
\* mutant: a throwing prep is called again, up to max_retries_ times
Prep_retried ==
    /\ pc = "prep"
    /\ calls' = [calls EXCEPT !.prep = @ + 1]
    /\ \/ /\ IF calls.prep + 1 < max_retries_[current]
             THEN UNCHANGED <<pc, exc>>
             ELSE Throw(PrepError)
          /\ UNCHANGED prep_res
       \/ /\ \E v \in PrepOutputs(kind[current]) : prep_res' = v
          /\ pc' = "exec"
          /\ UNCHANGED exc
    /\ UNCHANGED <<cfgVars, parVars, flowVars, params_, cur_retry_, shared, current, last_action, exec_res,
                   action, arg, items, results, last_err, result,
                   fails, tries, sleeps, post_args, fb_args, trace, acts, plans, tasks>>

\* json prep_res = prep(shared);
Prep ==
    /\ pc = "prep"
    /\ calls' = [calls EXCEPT !.prep = @ + 1]
    /\ \/ /\ Throw(PrepError)
          /\ UNCHANGED prep_res
       \/ /\ \E v \in PrepOutputs(kind[current]) : prep_res' = v
          /\ pc' = "exec"
          /\ UNCHANGED exc
    /\ UNCHANGED <<cfgVars, parVars, flowVars, params_, cur_retry_, shared, current, last_action, exec_res,
                   action, arg, items, results, last_err, result,
                   fails, tries, sleeps, post_args, fb_args, trace, acts, plans, tasks>>

\* mutant: post is given a copy of the context, its writes are lost
Post_on_copy ==
    /\ pc = "post"
    /\ calls' = [calls EXCEPT !.post = @ + 1]
    /\ post_args' = <<prep_res, exec_res>>
    /\ \/ /\ Throw(PostError)
          /\ UNCHANGED <<shared, action, acts, result>>
       \/ /\ shared' = shared
          /\ \E a \in PostActions(scenario, current) : action' = a
          /\ acts' = Append(acts, action')
          /\ pc' = after_run
          /\ IF after_run = "done" THEN result' = action' ELSE UNCHANGED result
          /\ UNCHANGED exc
    /\ UNCHANGED <<cfgVars, parVars, flowVars, params_, cur_retry_, current, last_action, prep_res, exec_res,
                   arg, items, results, last_err, fails, tries, sleeps, fb_args, trace, plans, tasks>>

\* json post_res = post(shared, prep_res, exec_res); return post_res;
\* BaseNode::run returns it to the caller, Flow::_orch routes on it
Post ==
    /\ pc = "post"
    /\ calls' = [calls EXCEPT !.post = @ + 1]
    /\ post_args' = <<prep_res, exec_res>>
    /\ \/ /\ Throw(PostError)
          /\ UNCHANGED <<shared, action, acts, result>>
       \/ /\ shared' = Append(shared, current)
          /\ \E a \in PostActions(scenario, current) : action' = a
          /\ acts' = Append(acts, action')
          /\ pc' = after_run
          /\ IF after_run = "done" THEN result' = action' ELSE UNCHANGED result
          /\ UNCHANGED exc
    /\ UNCHANGED <<cfgVars, parVars, flowVars, params_, cur_retry_, current, last_action, prep_res, exec_res,
                   arg, items, results, last_err, fails, tries, sleeps, fb_args, trace, plans, tasks>>

\* ------------------------------------------------------------ Node::_exec
\* mutant: the first attempt is made whatever max_retries_ is (a do-while loop)
may_attempt_at_least_once(cur, max) == cur = 0 \/ cur < max
\* the loop condition of the retry loop
may_attempt(cur, max) == cur < max
\* mutant: the wait grows by the base delay at every failure
backoff_time_linear(wait, cur) == wait * cur
\* int backoff_time = wait_ * (1 << (cur_retry_ - 1));
backoff_time(wait, cur) == wait * 2 ^ (cur - 1)
\* mutant: the fallback is called one failure early
exhausted_early(cur, max) == cur >= max - 1
\* mutant: the fallback is called only past max_retries_ failures
exhausted_late(cur, max) == cur > max
\* "If this was the last retry attempt, call fallback"
exhausted(cur, max) == cur >= max
\* the user's exec throws on its first `fails` calls of an invocation
exec_throws(call, f) == call <= f
\* how many of its first calls may throw: up to all the calls the node allows
FailChoices(n) ==
    0..(IF max_retries_[n] > MaxAttempts THEN max_retries_[n] ELSE MaxAttempts)

\* mutant: the counter keeps the value the invocation before left in it
Node_exec_enter_no_reset(item) ==
    /\ arg' = item
    /\ UNCHANGED cur_retry_
    /\ tries' = 0
    /\ sleeps' = <<>>
    /\ \E f \in FailChoices(current) : fails' = f
    /\ plans' = Append(plans, fails')
    /\ pc' = "retry"

\* entry: cur_retry_ = 0, on the argument item
Node_exec_enter(item) ==
    /\ arg' = item
    /\ cur_retry_' = [cur_retry_ EXCEPT ![current] = 0]
    /\ tries' = 0
    /\ sleeps' = <<>>
    /\ \E f \in FailChoices(current) : fails' = f
    /\ plans' = Append(plans, fails')
    /\ pc' = "retry"

\* mutant: a batch result is put in front of the results
Node_exec_return_prepend(v) ==
    IF kind[current] = "BatchNode"
    THEN results' = <<v>> \o results /\ pc' = "batch" /\ UNCHANGED exec_res
    ELSE exec_res' = v /\ pc' = "post" /\ UNCHANGED results

\* Node::_exec returns v to its caller: BaseNode::_run, or the loop of
\* BatchNode::_exec, which pushes it on results
Node_exec_return(v) ==
    IF kind[current] = "BatchNode"
    THEN results' = Append(results, v) /\ pc' = "batch" /\ UNCHANGED exec_res
    ELSE exec_res' = v /\ pc' = "post" /\ UNCHANGED results

\* mutant: _exec is called with an empty json instead of prep_res
Node_exec_begin_null ==
    /\ pc = "exec"
    /\ kind[current] = "Node"
    /\ Node_exec_enter(JNull)
    /\ UNCHANGED <<cfgVars, parVars, flowVars, params_, shared, current, last_action, prep_res, exec_res,
                   action, items, results, exc, last_err, result,
                   calls, post_args, fb_args, trace, acts, tasks>>

\* json exec_res = _exec(prep_res), on a Node
Node_exec_begin ==
    /\ pc = "exec"
    /\ kind[current] = "Node"
    /\ Node_exec_enter(prep_res)
    /\ UNCHANGED <<cfgVars, parVars, flowVars, params_, shared, current, last_action, prep_res, exec_res,
                   action, items, results, exc, last_err, result,
                   calls, post_args, fb_args, trace, acts, tasks>>

\* one turn of the retry loop: exec succeeds, or throws and is counted
Node_exec_attempt ==
    /\ pc = "retry"
    /\ may_attempt(cur_retry_[current], max_retries_[current])
    /\ tries' = tries + 1
    /\ calls' = [calls EXCEPT !.exec = @ + 1]
    /\ IF exec_throws(tries + 1, fails)
       THEN /\ cur_retry_' = [cur_retry_ EXCEPT ![current] = @ + 1]
            /\ last_err' = ExecError(tries + 1)
            /\ pc' = IF exhausted(cur_retry_'[current], max_retries_[current])
                     THEN "fallback" ELSE "retry"
            /\ sleeps' = IF ~exhausted(cur_retry_'[current], max_retries_[current])
                             /\ wait_[current] > 0
                          THEN Append(sleeps, backoff_time(wait_[current], cur_retry_'[current]))
                          ELSE sleeps
            /\ UNCHANGED <<exec_res, results>>
       ELSE /\ cur_retry_' = [cur_retry_ EXCEPT ![current] = 0]
            /\ Node_exec_return(ExecValue(arg, tries + 1))
            /\ UNCHANGED <<last_err, sleeps>>
    /\ UNCHANGED <<cfgVars, parVars, flowVars, params_, shared, current, last_action, prep_res,
                   action, arg, items, exc, result,
                   fails, post_args, fb_args, trace, acts, plans, tasks>>

\* mutant: when exec_fallback throws, the retry loop starts over
Node_exec_fallback_retries ==
    /\ pc = "fallback"
    /\ calls' = [calls EXCEPT !.fallback = @ + 1]
    /\ fb_args' = <<arg, last_err>>
    /\ CASE fallback_kind[current] = "default" ->
              Throw(Slice(last_err)) /\ UNCHANGED <<exec_res, results, cur_retry_>>
         [] fallback_kind[current] = "throws" ->
              /\ pc' = "retry"
              /\ cur_retry_' = [cur_retry_ EXCEPT ![current] = 0]
              /\ UNCHANGED <<exec_res, results, exc>>
         [] OTHER ->
              Node_exec_return(FallbackValue(arg, last_err)) /\ UNCHANGED <<exc, cur_retry_>>
    /\ UNCHANGED <<cfgVars, parVars, flowVars, params_, shared, current, last_action, prep_res,
                   action, arg, items, last_err, result,
                   fails, tries, sleeps, post_args, trace, acts, plans, tasks>>

\* return exec_fallback(prep_res, e);
Node_exec_fallback ==
    /\ pc = "fallback"
    /\ calls' = [calls EXCEPT !.fallback = @ + 1]
    /\ fb_args' = <<arg, last_err>>
    /\ CASE fallback_kind[current] = "default" ->
              Throw(Slice(last_err)) /\ UNCHANGED <<exec_res, results>>
         [] fallback_kind[current] = "throws" ->
              Throw(FallbackError) /\ UNCHANGED <<exec_res, results>>
         [] fallback_kind[current] = ItemFallback ->
              Throw(ItemError(arg)) /\ UNCHANGED <<exec_res, results>>
         [] OTHER ->
              Node_exec_return(FallbackValue(arg, last_err)) /\ UNCHANGED exc
    /\ UNCHANGED <<cfgVars, parVars, flowVars, params_, cur_retry_, shared, current, last_action, prep_res,
                   action, arg, items, last_err, result,
                   fails, tries, sleeps, post_args, trace, acts, plans, tasks>>

\* the loop condition fails: throw std::runtime_error("Unexpected state in retry logic")
Node_exec_unexpected ==
    /\ pc = "retry"
    /\ ~may_attempt(cur_retry_[current], max_retries_[current])
    /\ Throw(UnexpectedState)
    /\ UNCHANGED <<cfgVars, parVars, flowVars, params_, cur_retry_, shared, current, last_action, prep_res,
                   exec_res, action, arg, items, results, last_err, result,
                   fails, tries, sleeps, calls, post_args, fb_args, trace, acts, plans, tasks>>

\* ------------------------------------------------------- BatchNode::_exec
\* mutant: an input that is not an array is taken for an empty batch
BatchNode_exec_begin_drops_scalar ==
    /\ pc = "exec"
    /\ kind[current] = "BatchNode"
    /\ results' = <<>>
    /\ items' = IF is_array(prep_res) THEN prep_res.v ELSE <<>>
    /\ pc' = "batch"
    /\ UNCHANGED <<cfgVars, parVars, flowVars, params_, cur_retry_, shared, current, last_action, prep_res,
                   exec_res, action, arg, exc, last_err, result,
                   fails, tries, sleeps, calls, post_args, fb_args, trace, acts, plans, tasks>>

\* json results = json::array(); a non-array input is a single item
BatchNode_exec_begin ==
    /\ pc = "exec"
    /\ kind[current] = "BatchNode"
    /\ results' = <<>>
    /\ items' = IF is_array(prep_res) THEN prep_res.v ELSE <<prep_res>>
    /\ pc' = "batch"
    /\ UNCHANGED <<cfgVars, parVars, flowVars, params_, cur_retry_, shared, current, last_action, prep_res,
                   exec_res, action, arg, exc, last_err, result,
                   fails, tries, sleeps, calls, post_args, fb_args, trace, acts, plans, tasks>>

\* json item_result = Node::_exec(item), for the next item
BatchNode_exec_item ==
    /\ pc = "batch"
    /\ items # <<>>
    /\ Node_exec_enter(Head(items))
    /\ items' = Tail(items)
    /\ UNCHANGED <<cfgVars, parVars, flowVars, params_, shared, current, last_action, prep_res, exec_res,
                   action, results, exc, last_err, result,
                   calls, post_args, fb_args, trace, acts, tasks>>

\* return results;
BatchNode_exec_return ==
    /\ pc = "batch"
    /\ items = <<>>
    /\ exec_res' = JArr(results)
    /\ pc' = "post"
    /\ UNCHANGED <<cfgVars, parVars, flowVars, params_, cur_retry_, shared, current, last_action, prep_res,
                   action, arg, items, results, exc, last_err, result,
                   fails, tries, sleeps, calls, post_args, fb_args, trace, acts, plans, tasks>>

\* ------------------------------------- the synchronous adapters as functions
\* Node::_exec as a function of its input and of the user's exec behaviour:
\* the retry loop from cur_retry_ = cur, the next exec call being number `call`
RECURSIVE retry_loop(_, _, _, _, _, _)
retry_loop(item, f, max, fk, cur, call) ==
    IF ~may_attempt(cur, max)
    THEN [ok |-> FALSE, val |-> JNull, err |-> UnexpectedState]
    ELSE IF exec_throws(call, f)
    THEN IF exhausted(cur + 1, max)
         THEN CASE fk = "default" ->
                     [ok |-> FALSE, val |-> JNull, err |-> Slice(ExecError(call))]
                [] fk = "throws" ->
                     [ok |-> FALSE, val |-> JNull, err |-> FallbackError]
                [] fk = ItemFallback ->
                     [ok |-> FALSE, val |-> JNull, err |-> ItemError(item)]
                [] OTHER ->
                     [ok |-> TRUE, val |-> FallbackValue(item, ExecError(call)), err |-> NoExc]
         ELSE retry_loop(item, f, max, fk, cur + 1, call + 1)
    ELSE [ok |-> TRUE, val |-> ExecValue(item, call), err |-> NoExc]

Node_exec_fn(item, f, max, fk) == retry_loop(item, f, max, fk, 0, 1)

\* BatchNode::_exec on an array: Node::_exec item by item, results in input
\* order; the first item whose Node::_exec throws ends the loop
RECURSIVE batch_loop(_, _, _, _, _)
batch_loop(its, fs, max, fk, res) ==
    IF its = <<>> THEN [ok |-> TRUE, val |-> JArr(res), err |-> NoExc]
    ELSE LET r == Node_exec_fn(Head(its), Head(fs), max, fk)
         IN IF r.ok THEN batch_loop(Tail(its), Tail(fs), max, fk, Append(res, r.val))
            ELSE r

BatchNode_exec_fn(its, fs, max, fk) == batch_loop(its, fs, max, fk, <<>>)

\* ------------------------------------------- AsyncNode::_exec_async
\* One std::async task runs the retry loop on its own local counter.
NewTask(item, f) ==
    [item |-> item, cur_retry |-> 0, fails |-> f, tries |-> 0, st |-> "run",
     val |-> JNull, err |-> NoExc, fbs |-> 0, fb_args |-> <<>>, sleeps |-> <<>>,
     ord |-> 0]
Terminal(t) == t.st \in {"ok", "err"}
\* history: the position of a task in the order in which the tasks end
NextOrd == Cardinality({j \in DOMAIN tasks : Terminal(tasks[j])}) + 1

\* while (cur_retry < max_retries_)
async_may_attempt(cur, max) == cur < max
\* mutant: the async fallback is called one failure early
async_exhausted_early(cur, max) == cur >= max - 1
\* if (cur_retry >= max_retries_): call the async fallback
async_exhausted(cur, max) == cur >= max

\* AsyncNode::_exec_async as a function of its input and of the user's exec
\* behaviour: the loop of Node::_exec on a local counter, with its own message
\* when the loop is never entered
AsyncNode_exec_fn(item, f, max, fk) ==
    IF ~async_may_attempt(0, max)
    THEN [ok |-> FALSE, val |-> JNull, err |-> UnexpectedStateAsync]
    ELSE retry_loop(item, f, max, fk, 0, 1)

\* int cur_retry = 0; and the task starts
launch(item) == \E f \in FailChoices(current) : tasks' = Append(tasks, NewTask(item, f))

\* mutant: the tasks count their failures in the member cur_retry_ of the node
Task_attempt_shared_counter(i) ==
    /\ tasks[i].st = "run"
    /\ async_may_attempt(cur_retry_[current], max_retries_[current])
    /\ calls' = [calls EXCEPT !.exec = @ + 1]
    /\ LET t == tasks[i]
           c == t.tries + 1
       IN IF exec_throws(c, t.fails)
          THEN /\ cur_retry_' = [cur_retry_ EXCEPT ![current] = @ + 1]
               /\ tasks' = [tasks EXCEPT ![i] =
                     [t EXCEPT !.tries = c, !.cur_retry = cur_retry_[current] + 1,
                               !.err = ExecError(c),
                               !.st = IF async_exhausted(cur_retry_[current] + 1,
                                                         max_retries_[current])
                                      THEN "fallback" ELSE "run"]]
          ELSE /\ tasks' = [tasks EXCEPT ![i] =
                     [t EXCEPT !.tries = c, !.st = "ok", !.val = ExecValue(t.item, c),
                            !.ord = NextOrd]]
               /\ UNCHANGED cur_retry_
    /\ UNCHANGED <<cfgVars, parVars, flowVars, params_, shared, pc, current, last_action, prep_res,
                   exec_res, action, arg, items, results, exc, last_err, result,
                   fails, tries, sleeps, post_args, fb_args, trace, acts, plans>>

\* one turn of the loop of task i: exec_async(prep_res).get() returns or throws
Task_attempt(i) ==
    /\ tasks[i].st = "run"
    /\ async_may_attempt(tasks[i].cur_retry, max_retries_[current])
    /\ calls' = [calls EXCEPT !.exec = @ + 1]
    /\ LET t == tasks[i]
           c == t.tries + 1
       IN tasks' = [tasks EXCEPT ![i] =
             IF exec_throws(c, t.fails)
             THEN [t EXCEPT !.tries = c, !.cur_retry = @ + 1, !.err = ExecError(c),
                            !.st = IF async_exhausted(t.cur_retry + 1, max_retries_[current])
                                   THEN "fallback" ELSE "run",
                            !.sleeps =
                                   IF ~async_exhausted(t.cur_retry + 1, max_retries_[current])
                                      /\ wait_[current] > 0
                                   THEN Append(@, backoff_time(wait_[current], t.cur_retry + 1))
                                   ELSE @]
             ELSE [t EXCEPT !.tries = c, !.st = "ok", !.val = ExecValue(t.item, c),
                            !.ord = NextOrd]]
    /\ UNCHANGED <<cfgVars, parVars, flowVars, params_, cur_retry_, shared, pc, current, last_action, prep_res,
                   exec_res, action, arg, items, results, exc, last_err, result,
                   fails, tries, sleeps, post_args, fb_args, trace, acts, plans>>

\* mutant: a task that reaches its fallback stops the tasks still running
Task_fallback_cancels(i) ==
    /\ tasks[i].st = "fallback"
    /\ calls' = [calls EXCEPT !.fallback = @ + 1]
    /\ LET t == [tasks[i] EXCEPT !.fbs = @ + 1, !.fb_args = <<tasks[i].item, tasks[i].err>>,
                                  !.ord = NextOrd]
       IN tasks' = [j \in DOMAIN tasks |->
             IF j = i
             THEN CASE fallback_kind[current] = "default" ->
                         [t EXCEPT !.st = "err", !.err = Slice(t.err)]
                    [] fallback_kind[current] = "throws" ->
                         [t EXCEPT !.st = "err", !.err = FallbackError]
                    [] fallback_kind[current] = ItemFallback ->
                         [t EXCEPT !.st = "err", !.err = ItemError(t.item)]
                    [] OTHER ->
                         [t EXCEPT !.st = "ok", !.val = FallbackValue(t.item, t.err)]
             ELSE IF tasks[j].st = "run"
             THEN [tasks[j] EXCEPT !.st = "err", !.err = Exc("cancelled", "sibling", 0)]
             ELSE tasks[j]]
    /\ UNCHANGED <<cfgVars, parVars, flowVars, params_, cur_retry_, shared, pc, current, last_action,
                   prep_res, exec_res, action, arg, items, results, exc, last_err, result,
                   fails, tries, sleeps, post_args, fb_args, trace, acts, plans>>

\* return exec_fallback_async(prep_res, e).get();
Task_fallback(i) ==
    /\ tasks[i].st = "fallback"
    /\ calls' = [calls EXCEPT !.fallback = @ + 1]
    /\ LET t == [tasks[i] EXCEPT !.fbs = @ + 1, !.fb_args = <<tasks[i].item, tasks[i].err>>,
                                  !.ord = NextOrd]
       IN tasks' = [tasks EXCEPT ![i] =
             CASE fallback_kind[current] = "default" ->
                    [t EXCEPT !.st = "err", !.err = Slice(t.err)]
               [] fallback_kind[current] = "throws" ->
                    [t EXCEPT !.st = "err", !.err = FallbackError]
               [] fallback_kind[current] = ItemFallback ->
                    [t EXCEPT !.st = "err", !.err = ItemError(t.item)]
               [] OTHER ->
                    [t EXCEPT !.st = "ok", !.val = FallbackValue(t.item, t.err)]]
    /\ UNCHANGED <<cfgVars, parVars, flowVars, params_, cur_retry_, shared, pc, current, last_action, prep_res,
                   exec_res, action, arg, items, results, exc, last_err, result,
                   fails, tries, sleeps, post_args, fb_args, trace, acts, plans>>

\* throw std::runtime_error("Unexpected state in async retry logic");
Task_unexpected(i) ==
    /\ tasks[i].st = "run"
    /\ ~async_may_attempt(tasks[i].cur_retry, max_retries_[current])
    /\ tasks' = [tasks EXCEPT ![i] = [@ EXCEPT !.st = "err",
                     !.err = UnexpectedStateAsync,
                     !.ord = NextOrd]]
    /\ UNCHANGED <<cfgVars, parVars, flowVars, params_, cur_retry_, shared, pc, current, last_action, prep_res,
                   exec_res, action, arg, items, results, exc, last_err, result,
                   fails, tries, sleeps, calls, post_args, fb_args, trace, acts, plans>>

\* ------------------------------------------------ AsyncNode::_run_async
\* AsyncNode::run_async on a single node
NodeRunAsync ==
    /\ pc = "start"
    /\ scenario \in {"single_async", "backoff_async", "single_default"}
    /\ current' = "A"
    /\ trace' = Append(trace, "A")
    /\ calls' = NoCalls
    /\ pc' = "prep_async"
    /\ UNCHANGED <<cfgVars, parVars, flowVars, params_, cur_retry_, shared, last_action, prep_res, exec_res,
                   action, arg, items, results, exc, last_err, result,
                   fails, tries, sleeps, post_args, fb_args, acts, plans, tasks>>

\* json prep_res = prep_async(shared).get();
PrepAsync ==
    /\ pc = "prep_async"
    /\ calls' = [calls EXCEPT !.prep = @ + 1]
    /\ \/ /\ Throw(PrepError)
          /\ UNCHANGED prep_res
       \/ /\ \E v \in PrepOutputs(kind[current]) : prep_res' = v
          /\ pc' = "exec_async"
          /\ UNCHANGED exc
    /\ UNCHANGED <<cfgVars, parVars, flowVars, params_, cur_retry_, shared, current, last_action, exec_res,
                   action, arg, items, results, last_err, result,
                   fails, tries, sleeps, post_args, fb_args, trace, acts, plans, tasks>>

\* auto exec_future = _exec_async(prep_res), on a plain AsyncNode
AsyncNode_exec_launch ==
    /\ pc = "exec_async"
    /\ kind[current] = "AsyncNode"
    /\ launch(prep_res)
    /\ pc' = "exec_get"
    /\ UNCHANGED <<cfgVars, parVars, flowVars, params_, cur_retry_, shared, current, last_action, prep_res,
                   exec_res, action, arg, items, results, exc, last_err, result,
                   fails, tries, sleeps, calls, post_args, fb_args, trace, acts, plans>>

\* mutant: the result is taken without waiting for the task
AsyncNode_exec_get_no_wait ==
    /\ pc = "exec_get"
    /\ IF tasks[1].st = "err"
       THEN Throw(tasks[1].err) /\ UNCHANGED exec_res
       ELSE exec_res' = tasks[1].val /\ pc' = "post_async" /\ UNCHANGED exc
    /\ UNCHANGED <<cfgVars, parVars, flowVars, params_, cur_retry_, shared, current, last_action, prep_res,
                   action, arg, items, results, last_err, result,
                   fails, tries, sleeps, calls, post_args, fb_args, trace, acts, plans, tasks>>

\* json exec_res = exec_future.get();
AsyncNode_exec_get ==
    /\ pc = "exec_get"
    /\ Terminal(tasks[1])
    /\ IF tasks[1].st = "ok"
       THEN exec_res' = tasks[1].val /\ pc' = "post_async" /\ UNCHANGED exc
       ELSE Throw(tasks[1].err) /\ UNCHANGED exec_res
    /\ UNCHANGED <<cfgVars, parVars, flowVars, params_, cur_retry_, shared, current, last_action, prep_res,
                   action, arg, items, results, last_err, result,
                   fails, tries, sleeps, calls, post_args, fb_args, trace, acts, plans, tasks>>

\* the node keeps AsyncNode::prep_async and AsyncNode::post_async, whose
\* lambdas capture the context by value: [this, shared]
DefaultBridges(sc, n) == sc = "single_default" \/ (sc = "flow_default" /\ n = "B")
\* the context the caller holds once post has written to ctx: ctx is the
\* caller's context when post_async is overridden, a copy of it otherwise
context_after_post(sc, n, ctx) ==
    LET written == Append(ctx, n)
    IN IF DefaultBridges(sc, n) THEN ctx ELSE written

\* mutant: the default post_async hands the caller's context to post
PostAsync_by_reference ==
    /\ pc = "post_async"
    /\ calls' = [calls EXCEPT !.post = @ + 1]
    /\ post_args' = <<prep_res, exec_res>>
    /\ \/ /\ Throw(PostError)
          /\ UNCHANGED <<shared, action, acts, result>>
       \/ /\ shared' = Append(shared, current)
          /\ \E a \in PostActions(scenario, current) : action' = a
          /\ acts' = Append(acts, action')
          /\ pc' = after_run
          /\ IF after_run = "done" THEN result' = action' ELSE UNCHANGED result
          /\ UNCHANGED exc
    /\ UNCHANGED <<cfgVars, parVars, flowVars, params_, cur_retry_, current, last_action, prep_res, exec_res,
                   arg, items, results, last_err, fails, tries, sleeps, fb_args, trace, plans, tasks>>

\* json action = post_async(shared, prep_res, exec_res).get(); return action;
PostAsync ==
    /\ pc = "post_async"
    /\ calls' = [calls EXCEPT !.post = @ + 1]
    /\ post_args' = <<prep_res, exec_res>>
    /\ \/ /\ Throw(PostError)
          /\ UNCHANGED <<shared, action, acts, result>>
       \/ /\ shared' = context_after_post(scenario, current, shared)
          /\ \E a \in PostActions(scenario, current) : action' = a
          /\ acts' = Append(acts, action')
          /\ pc' = after_run
          /\ IF after_run = "done" THEN result' = action' ELSE UNCHANGED result
          /\ UNCHANGED exc
    /\ UNCHANGED <<cfgVars, parVars, flowVars, params_, cur_retry_, current, last_action, prep_res, exec_res,
                   arg, items, results, last_err, fails, tries, sleeps, fb_args, trace, plans, tasks>>

\* ------------------------------------------ AsyncBatchNode::_exec_async
\* json results = json::array(); a non-array input is a single item
AsyncBatch_begin ==
    /\ pc = "exec_async"
    /\ kind[current] = "AsyncBatchNode"
    /\ results' = <<>>
    /\ items' = IF is_array(prep_res) THEN prep_res.v ELSE <<prep_res>>
    /\ pc' = "abatch"
    /\ UNCHANGED <<cfgVars, parVars, flowVars, params_, cur_retry_, shared, current, last_action, prep_res,
                   exec_res, action, arg, exc, last_err, result,
                   fails, tries, sleeps, calls, post_args, fb_args, trace, acts, plans, tasks>>

\* auto future = this->AsyncNode::_exec_async(item);
AsyncBatch_launch ==
    /\ pc = "abatch"
    /\ items # <<>>
    /\ launch(Head(items))
    /\ items' = Tail(items)
    /\ pc' = "abatch_get"
    /\ UNCHANGED <<cfgVars, parVars, flowVars, params_, cur_retry_, shared, current, last_action, prep_res,
                   exec_res, action, arg, results, exc, last_err, result,
                   fails, tries, sleeps, calls, post_args, fb_args, trace, acts, plans>>

\* mutant: an element whose task failed is left out and the loop goes on
AsyncBatch_get_skips_failed ==
    /\ pc = "abatch_get"
    /\ Terminal(tasks[Len(tasks)])
    /\ results' = IF tasks[Len(tasks)].st = "ok"
                  THEN Append(results, tasks[Len(tasks)].val) ELSE results
    /\ pc' = "abatch"
    /\ UNCHANGED <<cfgVars, parVars, flowVars, params_, cur_retry_, shared, current, last_action, prep_res,
                   exec_res, action, arg, items, exc, last_err, result,
                   fails, tries, sleeps, calls, post_args, fb_args, trace, acts, plans, tasks>>

\* json item_result = future.get(); results.push_back(item_result);
AsyncBatch_get ==
    /\ pc = "abatch_get"
    /\ Terminal(tasks[Len(tasks)])
    /\ IF tasks[Len(tasks)].st = "ok"
       THEN results' = Append(results, tasks[Len(tasks)].val) /\ pc' = "abatch"
            /\ UNCHANGED exc
       ELSE Throw(tasks[Len(tasks)].err) /\ UNCHANGED results
    /\ UNCHANGED <<cfgVars, parVars, flowVars, params_, cur_retry_, shared, current, last_action, prep_res,
                   exec_res, action, arg, items, last_err, result,
                   fails, tries, sleeps, calls, post_args, fb_args, trace, acts, plans, tasks>>

\* return results;
AsyncBatch_return ==
    /\ pc = "abatch"
    /\ items = <<>>
    /\ exec_res' = JArr(results)
    /\ pc' = "post_async"
    /\ UNCHANGED <<cfgVars, parVars, flowVars, params_, cur_retry_, shared, current, last_action, prep_res,
                   action, arg, items, results, exc, last_err, result,
                   fails, tries, sleeps, calls, post_args, fb_args, trace, acts, plans, tasks>>

\* ---------------------------------- AsyncParallelBatchNode::_exec_async
\* json results = json::array(); a non-array input is a single item
Parallel_begin ==
    /\ pc = "exec_async"
    /\ kind[current] = "AsyncParallelBatchNode"
    /\ results' = <<>>
    /\ items' = IF is_array(prep_res) THEN prep_res.v ELSE <<prep_res>>
    /\ pc' = "par_launch"
    /\ UNCHANGED <<cfgVars, parVars, flowVars, params_, cur_retry_, shared, current, last_action, prep_res,
                   exec_res, action, arg, exc, last_err, result,
                   fails, tries, sleeps, calls, post_args, fb_args, trace, acts, plans, tasks>>

\* futures.push_back(this->AsyncNode::_exec_async(item)); the task runs from now on
Parallel_launch ==
    /\ pc = "par_launch"
    /\ items # <<>>
    /\ launch(Head(items))
    /\ items' = Tail(items)
    /\ UNCHANGED <<cfgVars, parVars, flowVars, params_, cur_retry_, shared, pc, current, last_action, prep_res,
                   exec_res, action, arg, results, exc, last_err, result,
                   fails, tries, sleeps, calls, post_args, fb_args, trace, acts, plans>>

\* mutant: the futures are read from the last one launched to the first
join_index_reverse(res) == Len(tasks) - Len(res)
\* the future the join loop reads next
join_index(res) == Len(res) + 1

\* mutant: the error of whichever task has failed is reported as soon as it is there
Parallel_join_any_failed ==
    /\ pc = "par_launch"
    /\ items = <<>>
    /\ join_index(results) \in DOMAIN tasks
    /\ \/ \E i \in DOMAIN tasks :
             /\ tasks[i].st = "err"
             /\ exc' = tasks[i].err /\ pc' = "par_unwind"
             /\ UNCHANGED results
       \/ /\ tasks[join_index(results)].st = "ok"
          /\ results' = Append(results, tasks[join_index(results)].val)
          /\ UNCHANGED <<exc, pc>>
    /\ UNCHANGED <<cfgVars, parVars, flowVars, params_, cur_retry_, shared, current, last_action, prep_res,
                   exec_res, action, arg, items, last_err, result,
                   fails, tries, sleeps, calls, post_args, fb_args, trace, acts, plans, tasks>>

\* json item_result = future.get(); results.push_back(item_result); in the
\* order of the futures.  A future that holds an exception rethrows it.
Parallel_join ==
    /\ pc = "par_launch"
    /\ items = <<>>
    /\ join_index(results) \in DOMAIN tasks
    /\ Terminal(tasks[join_index(results)])
    /\ IF tasks[join_index(results)].st = "ok"
       THEN results' = Append(results, tasks[join_index(results)].val)
            /\ UNCHANGED <<exc, pc>>
       ELSE exc' = tasks[join_index(results)].err /\ pc' = "par_unwind"
            /\ UNCHANGED results
    /\ UNCHANGED <<cfgVars, parVars, flowVars, params_, cur_retry_, shared, current, last_action, prep_res,
                   exec_res, action, arg, items, last_err, result,
                   fails, tries, sleeps, calls, post_args, fb_args, trace, acts, plans, tasks>>

\* the exception leaves the lambda: the futures vector is destroyed, and the
\* destructor of a std::async future waits for its task
Parallel_unwind ==
    /\ pc = "par_unwind"
    /\ \A i \in DOMAIN tasks : Terminal(tasks[i])
    /\ pc' = "failed"
    /\ UNCHANGED <<cfgVars, parVars, flowVars, params_, cur_retry_, shared, current, last_action, prep_res,
                   exec_res, action, arg, items, results, exc, last_err, result,
                   fails, tries, sleeps, calls, post_args, fb_args, trace, acts, plans, tasks>>

\* return results;
Parallel_return ==
    /\ pc = "par_launch"
    /\ items = <<>>
    /\ join_index(results) \notin DOMAIN tasks
    /\ exec_res' = JArr(results)
    /\ pc' = "post_async"
    /\ UNCHANGED <<cfgVars, parVars, flowVars, params_, cur_retry_, shared, current, last_action, prep_res,
                   action, arg, items, results, exc, last_err, result,
                   fails, tries, sleeps, calls, post_args, fb_args, trace, acts, plans, tasks>>

\* -------------------------------------------------- AsyncFlow::_run_async
\* AsyncFlow::post_async, the default: return exec_res;
AsyncFlow_post_async(orch_res) == orch_res

\* AsyncFlow::run_async up to the loop of _orch_async: prep_async (the
\* default runs the flow's prep), then _orch_async(shared, prep_res), awaited
AsyncFlowRun ==
    /\ pc = "start"
    /\ FlowClass(scenario) = "AsyncFlow"
    /\ \E v \in FlowPrepOutputs(scenario) : flow_prep' = v
    /\ flow_calls' = [flow_calls EXCEPT !.prep = @ + 1]
    /\ orch_params' = flow_prep'
    /\ last_action' = JNull
    /\ current' = start_node_[TheFlow]
    /\ pc' = "aorch"
    /\ UNCHANGED <<cfgVars, parVars, params_, cur_retry_, shared, prep_res, exec_res, action,
                   arg, items, results, exc, last_err, result, stack, bf_rest, travs,
                   fails, tries, sleeps, calls, post_args, fb_args, trace, acts, plans, tasks>>

\* mutant: every node is driven through the synchronous _run
AsyncOrchIter_always_sync ==
    /\ pc = "aorch"
    /\ current # NoNode
    /\ Count(trace, current) < MaxVisits
    /\ params_' = assigned_params(current, combined_params(params_[TheFlow], orch_params))
    /\ trace' = Append(trace, current)
    /\ calls' = NoCalls
    /\ plans' = <<>>
    /\ tasks' = <<>>
    /\ IF kind[current] \in AsyncKinds
       THEN Throw(CapabilityError)
       ELSE pc' = "prep" /\ UNCHANGED exc
    /\ UNCHANGED <<cfgVars, parVars, flowVars, cur_retry_, shared, current, last_action, prep_res,
                   exec_res, action, arg, items, results, last_err, result,
                   fails, tries, sleeps, post_args, fb_args, acts>>

\* head of the loop of _orch_async: merge the parameters, assign them, then
\* run_async(shared).get() on an AsyncNode and _run(shared) on any other node;
\* a nested flow, AsyncFlow included, is not an AsyncNode: its _run is
\* Flow::_run, which runs the synchronous _orch
AsyncOrchIter ==
    /\ pc = "aorch"
    /\ current # NoNode
    /\ Count(trace, current) < MaxVisits
    /\ params_' = assigned_params(current, combined_params(params_[TheFlow], orch_params))
    /\ tasks' = <<>>
    /\ IF kind[current] \in FlowKinds
       THEN /\ stack' = Append(stack, [node |-> current, last_action |-> last_action,
                                       params |-> orch_params, from |-> Len(trace)])
            /\ orch_params' = JNull
            /\ last_action' = JNull
            /\ current' = start_node_[current]
            /\ pc' = "orch"
            /\ UNCHANGED <<trace, calls, plans>>
       ELSE /\ trace' = Append(trace, current)
            /\ calls' = NoCalls
            /\ plans' = <<>>
            /\ pc' = IF kind[current] \in AsyncKinds THEN "prep_async" ELSE "prep"
            /\ UNCHANGED <<current, last_action, orch_params, stack>>
    /\ UNCHANGED <<cfgVars, parVars, cur_retry_, shared, prep_res,
                   exec_res, action, arg, items, results, exc, last_err, result,
                   fails, tries, sleeps, post_args, fb_args, acts,
                   flow_prep, bf_rest, travs, flow_calls>>

\* tail of the loop of _orch_async: action string, last_action, get_next_node
AsyncOrchRoute ==
    /\ pc = "aroute"
    /\ last_action' = action
    /\ current' = get_next_node(successors_, current, action_str(action))
    /\ pc' = "aorch"
    /\ UNCHANGED <<cfgVars, parVars, flowVars, params_, cur_retry_, shared, prep_res, exec_res,
                   action, arg, items, results, exc, last_err, result,
                   fails, tries, sleeps, calls, post_args, fb_args, trace, acts, plans, tasks>>

\* the loop ends; AsyncFlow::_run_async hands the last action to post_async
AsyncOrchReturn ==
    /\ pc = "aorch"
    /\ current = NoNode
    /\ FlowClass(scenario) = "AsyncFlow"
    /\ flow_calls' = [flow_calls EXCEPT !.post = @ + 1]
    /\ result' = AsyncFlow_post_async(last_action)
    /\ pc' = "done"
    /\ UNCHANGED <<cfgVars, parVars, params_, cur_retry_, shared, current, last_action, prep_res,
                   exec_res, action, arg, items, results, exc, last_err,
                   fails, tries, sleeps, calls, post_args, fb_args, trace, acts, plans, tasks,
                   orch_params, stack, flow_prep, bf_rest, travs>>

\* --------------------------------------------- AsyncBatchFlow::_run_async
\* prep_async(shared).get(); the loop runs over an array only
AsyncBatchFlowRun ==
    /\ pc = "start"
    /\ FlowClass(scenario) = "AsyncBatchFlow"
    /\ \E v \in FlowPrepOutputs(scenario) : flow_prep' = v
    /\ flow_calls' = [flow_calls EXCEPT !.prep = @ + 1]
    /\ bf_rest' = IF is_array(flow_prep') THEN flow_prep'.v ELSE <<>>
    /\ pc' = "abf_loop"
    /\ UNCHANGED <<cfgVars, parVars, params_, cur_retry_, shared, current, last_action, prep_res,
                   exec_res, action, arg, items, results, exc, last_err, result,
                   fails, tries, sleeps, calls, post_args, fb_args, trace, acts, plans, tasks,
                   orch_params, stack, travs>>

\* one turn of the loop: _orch_async(shared, combined_params), awaited
AsyncBatchFlow_next ==
    /\ pc = "abf_loop"
    /\ bf_rest # <<>>
    /\ orch_params' = batch_combined(params_[TheFlow], Head(bf_rest))
    /\ travs' = Append(travs, NewTraversal(Head(bf_rest), Len(trace)))
    /\ bf_rest' = Tail(bf_rest)
    /\ last_action' = JNull
    /\ current' = start_node_[TheFlow]
    /\ pc' = "aorch"
    /\ UNCHANGED <<cfgVars, parVars, params_, cur_retry_, shared, prep_res,
                   exec_res, action, arg, items, results, exc, last_err, result,
                   fails, tries, sleeps, calls, post_args, fb_args, trace, acts, plans, tasks,
                   stack, flow_prep, flow_calls>>

\* orch_future.get(): "Wait for completion before processing next batch"
AsyncBatchFlow_orch_return ==
    /\ pc = "aorch"
    /\ current = NoNode
    /\ FlowClass(scenario) = "AsyncBatchFlow"
    /\ travs' = [travs EXCEPT ![Len(travs)].done = TRUE]
    /\ pc' = "abf_loop"
    /\ UNCHANGED <<cfgVars, parVars, params_, cur_retry_, shared, current, last_action, prep_res,
                   exec_res, action, arg, items, results, exc, last_err, result,
                   fails, tries, sleeps, calls, post_args, fb_args, trace, acts, plans, tasks,
                   orch_params, stack, flow_prep, bf_rest, flow_calls>>

\* return post_async(shared, prep_res, json{}).get();
AsyncBatchFlow_post ==
    /\ pc = "abf_loop"
    /\ bf_rest = <<>>
    /\ flow_calls' = [flow_calls EXCEPT !.post = @ + 1]
    /\ result' = AsyncFlow_post_async(JNull)
    /\ pc' = "done"
    /\ UNCHANGED <<cfgVars, parVars, params_, cur_retry_, shared, current, last_action, prep_res,
                   exec_res, action, arg, items, results, exc, last_err,
                   fails, tries, sleeps, calls, post_args, fb_args, trace, acts, plans, tasks,
                   orch_params, stack, flow_prep, bf_rest, travs>>

\* ------------------------------------- AsyncParallelBatchFlow::_run_async
\* Every element of the array gets a std::async task running _orch_async; the
\* tasks run concurrently with each other and with the launch loop. They share
\* the context, the flow and the node objects: node_copy is the node itself.
\* A step of a task is one access to what the tasks share.
seqVars == <<cur_retry_, current, last_action, prep_res, exec_res, action, arg, items,
             results, last_err, fails, tries, sleeps, calls, post_args, fb_args, trace,
             acts, plans, tasks, orch_params, stack, travs>>

\* the task of _orch_async(shared, params): current is the start node,
\* last_action is null; saw is the parameters its last node phase has run with;
\* of its invocation of Node::_exec: the user's exec throws on its first
\* `fails` calls, tries is the exec calls made, fbs the exec_fallback calls,
\* reg the register the task increments cur_retry_ in
NewThread(p) ==
    [p |-> p, current |-> start_node_[TheFlow], st |-> "iter", last_action |-> JNull,
     saw |-> {}, exc |-> NoExc, fails |-> 0, tries |-> 0, fbs |-> 0, reg |-> 0]

Terminated(t) == threads[t].st \in {"returned", "failed"}

\* prep_async(shared).get(); the launch loop runs over an array only
ParallelBatchFlowRun ==
    /\ pc = "start"
    /\ FlowClass(scenario) = "AsyncParallelBatchFlow"
    /\ \E v \in FlowPrepOutputs(scenario) : flow_prep' = v
    /\ flow_calls' = [flow_calls EXCEPT !.prep = @ + 1]
    /\ bf_rest' = IF is_array(flow_prep') THEN flow_prep'.v ELSE <<>>
    /\ pc' = "apbf"
    /\ UNCHANGED <<cfgVars, parVars, seqVars, params_, shared, exc, result>>

\* futures.push_back(this->_orch_async(shared, combined_params));
ParallelBatchFlow_launch ==
    /\ pc = "apbf"
    /\ bf_rest # <<>>
    /\ threads' = Append(threads, NewThread(batch_combined(params_[TheFlow], Head(bf_rest))))
    /\ bf_rest' = Tail(bf_rest)
    /\ UNCHANGED <<cfgVars, seqVars, params_, shared, pc, exc, result, flow_prep,
                   flow_calls, joined, raced>>

\* future.get(), in launch order: returns when the task has returned and
\* rethrows what the task threw
ParallelBatchFlow_get ==
    /\ pc = "apbf"
    /\ bf_rest = <<>>
    /\ joined < Len(threads)
    /\ Terminated(joined + 1)
    /\ joined' = joined + 1
    /\ IF threads[joined + 1].st = "failed"
       THEN exc' = threads[joined + 1].exc /\ pc' = "apbf_unwind"
       ELSE UNCHANGED <<exc, pc>>
    /\ UNCHANGED <<cfgVars, seqVars, params_, shared, result, flow_prep, bf_rest,
                   flow_calls, threads, raced>>

\* the exception leaves the lambda: the destructor of futures waits for the
\* tasks of the futures not yet got, then run_async's future holds the exception
ParallelBatchFlow_unwind ==
    /\ pc = "apbf_unwind"
    /\ \A t \in DOMAIN threads : Terminated(t)
    /\ pc' = "failed"
    /\ UNCHANGED <<cfgVars, parVars, seqVars, params_, shared, exc, result, flow_prep,
                   bf_rest, flow_calls>>

\* return post_async(shared, prep_res, json{}).get();
ParallelBatchFlow_post ==
    /\ pc = "apbf"
    /\ bf_rest = <<>>
    /\ joined = Len(threads)
    /\ flow_calls' = [flow_calls EXCEPT !.post = @ + 1]
    /\ result' = AsyncFlow_post_async(JNull)
    /\ pc' = "done"
    /\ UNCHANGED <<cfgVars, parVars, seqVars, params_, shared, exc, flow_prep, bf_rest>>

\* ------------------------------------------- accesses to shared members
\* The tasks of the traversals run on the same node objects. params_ is
\* assigned by set_params and read by the hooks without synchronization, so
\* an assignment that overlaps an assignment or a read of another task is a
\* data race. The assignment swaps the new object in and destroys the old
\* one, whose memory is freed and used again by the tasks; the copy a read
\* makes meanwhile is the old value, the new one, or whatever the memory
\* holds as the copy walks it, which need not be a json value at all: the
\* object with members null, with a key twice, with a member whose type tag
\* is none of json, or the contents of another object, such as the result of
\* an exec_fallback. The copy can also throw std::bad_alloc, and the heap can
\* be left damaged, of which the process dies then or later (SIGSEGV, abort).
BadAlloc == Exc("std::bad_alloc", "params_", 0)
\* what the copy of a read holds when it is neither the value the node held
\* nor the value a task assigns: any other contents, valid json or not
Damaged == [t |-> "damaged", v |-> 0]

\* the value task t assigns to the parameters of its current node:
\* combined_params = this->params_ updated with params
Assigned(t) == combined_params(params_[TheFlow], threads[t].p)
\* the tasks other than t that are inside set_params on the node of t
Writers(t) ==
    {u \in DOMAIN threads \ {t} :
        threads[u].st = "set_params" /\ threads[u].current = threads[t].current}
\* what a read of this->params_ by a hook of task t can yield
ParamsRead(t) ==
    IF Writers(t) = {} THEN {params_[threads[t].current]}
    ELSE {params_[threads[t].current], Damaged} \cup {Assigned(u) : u \in Writers(t)}
\* an access of task t to params_ that overlaps the assignment of another
\* task has been made
Races(t) == raced' = (raced \/ Writers(t) # {})

\* head of the loop of _orch_async in task t: combined_params = this->params_
\* updated with params; node_copy->set_params(combined_params) is called when
\* it is an object, and the assignment params_ = params begins
Traversal_iter(t) ==
    /\ pc # "crashed"
    /\ threads[t].st = "iter"
    /\ threads' = [threads EXCEPT ![t].st = IF ~is_null(Assigned(t)) /\ is_object(Assigned(t))
                                            THEN "set_params" ELSE "prep"]
    /\ UNCHANGED <<cfgVars, seqVars, params_, shared, pc, exc, result, flow_prep, bf_rest,
                   flow_calls, joined, raced>>

\* void set_params(const json& params) { params_ = params; }: the assignment
\* ends
Traversal_set_params(t) ==
    /\ pc # "crashed"
    /\ threads[t].st = "set_params"
    /\ params_' = [params_ EXCEPT ![threads[t].current] = Assigned(t)]
    /\ threads' = [threads EXCEPT ![t].st = "prep"]
    /\ Races(t)
    /\ UNCHANGED <<cfgVars, seqVars, shared, pc, exc, result, flow_prep, bf_rest,
                   flow_calls, joined>>

\* the process dies of the damage a racing access to params_ has done, in
\* that access or at any later moment of the run, the other tasks having run
\* on in between
Traversal_crash ==
    /\ pc \in {"apbf", "apbf_unwind"}
    /\ raced
    /\ pc' = "crashed"
    /\ UNCHANGED <<cfgVars, parVars, seqVars, params_, shared, exc, result, flow_prep,
                   bf_rest, flow_calls>>

\* a phase of the node, which has read q in this->params_, throws: nothing in
\* _orch_async catches, the future of the task holds the exception
Traversal_fail(t, e, q) ==
    threads' = [threads EXCEPT ![t].st = "failed", ![t].exc = e, ![t].saw = {q}]

\* framework code of the node throws e in task t
Traversal_throw(t, e) ==
    threads' = [threads EXCEPT ![t].st = "failed", ![t].exc = e]

\* the copy of this->params_ made by a hook of task t throws std::bad_alloc
Traversal_read_fails(t) ==
    /\ Writers(t) # {}
    /\ Traversal_throw(t, BadAlloc)

\* prep or prep_async of the node, which reads this->params_
Traversal_prep(t) ==
    /\ pc # "crashed"
    /\ threads[t].st = "prep"
    /\ \/ \E q \in ParamsRead(t) :
             \/ Traversal_fail(t, PrepError, q)
             \/ threads' = [threads EXCEPT ![t].st = "exec", ![t].saw = {q}]
       \/ Traversal_read_fails(t)
    /\ Races(t)
    /\ UNCHANGED <<cfgVars, seqVars, params_, shared, pc, exc, result, flow_prep, bf_rest,
                   flow_calls, joined>>

\* _exec_async of an AsyncNode with max_retries_ = 1, whose counter is local
\* to the call: exec_async(prep_res).get(), which reads this->params_ and
\* returns or throws; catch (const std::exception& e) takes what it throws,
\* the std::bad_alloc of the read included, for the failed attempt
Traversal_exec(t) ==
    /\ pc # "crashed"
    /\ threads[t].st = "exec"
    /\ kind[threads[t].current] \in AsyncKinds
    /\ \/ \E q \in ParamsRead(t), s \in {"post", "fallback"} :
             threads' = [threads EXCEPT ![t].st = s, ![t].saw = {q}]
       \/ /\ Writers(t) # {}
          /\ threads' = [threads EXCEPT ![t].st = "fallback"]
    /\ Races(t)
    /\ UNCHANGED <<cfgVars, seqVars, params_, shared, pc, exc, result, flow_prep, bf_rest,
                   flow_calls, joined>>

\* cur_retry >= max_retries_: exec_fallback_async(prep_res, e).get(), in a
\* thread of its own after the one of exec_async; an overriding fallback
\* reads this->params_, the default one rethrows
Traversal_exec_fallback(t) ==
    /\ pc # "crashed"
    /\ threads[t].st = "fallback"
    /\ kind[threads[t].current] \in AsyncKinds
    /\ IF fallback_kind[threads[t].current] = "default"
       THEN /\ Traversal_throw(t, Slice(ExecError(1)))
            /\ UNCHANGED raced
       ELSE /\ \/ \E q \in ParamsRead(t) :
                     IF fallback_kind[threads[t].current] = "throws"
                     THEN Traversal_fail(t, FallbackError, q)
                     ELSE threads' = [threads EXCEPT ![t].st = "post",
                                                     ![t].saw = {q}]
               \/ Traversal_read_fails(t)
            /\ Races(t)
    /\ UNCHANGED <<cfgVars, seqVars, params_, shared, pc, exc, result, flow_prep, bf_rest,
                   flow_calls, joined>>

\* Node::_exec of a synchronous Node in task t. The counter cur_retry_ is a
\* member of the node, which the tasks share and access without
\* synchronization: a step is one access to it.
\* cur_retry_ = 0;
Traversal_Node_exec_enter(t) ==
    /\ pc # "crashed"
    /\ threads[t].st = "exec"
    /\ kind[threads[t].current] = "Node"
    /\ cur_retry_' = [cur_retry_ EXCEPT ![threads[t].current] = 0]
    /\ \E f \in 0..max_retries_[threads[t].current] :
          threads' = [threads EXCEPT ![t].st = "loop", ![t].fails = f, ![t].tries = 0,
                                     ![t].fbs = 0]
    /\ UNCHANGED <<cfgVars, current, last_action, prep_res, exec_res, action, arg, items,
                   results, last_err, fails, tries, sleeps, calls, post_args, fb_args, trace,
                   acts, plans, tasks, orch_params, stack, travs, raced,
                   params_, shared, pc, exc, result, flow_prep, bf_rest, flow_calls, joined>>

\* while (cur_retry_ < max_retries_) {: the test reads the counter; and after
\* the loop: throw std::runtime_error("Unexpected state in retry logic")
Traversal_Node_exec_attempt(t) ==
    /\ pc # "crashed"
    /\ threads[t].st = "loop"
    /\ LET n == threads[t].current
       IN IF may_attempt(cur_retry_[n], max_retries_[n])
          THEN threads' = [threads EXCEPT ![t].st = "call"]
          ELSE Traversal_throw(t, UnexpectedState)
    /\ UNCHANGED <<cfgVars, seqVars, params_, shared, pc, exc, result, flow_prep, bf_rest,
                   flow_calls, joined, raced>>

\* try { json result = exec(prep_res);: the call, made whatever the other
\* tasks have stored in the counter since the test; exec reads this->params_.
\* A std::bad_alloc of that read is an exception of exec like any other: the
\* call is one more of the calls of the task that fail
Traversal_Node_exec_call(t) ==
    /\ pc # "crashed"
    /\ threads[t].st = "call"
    /\ LET c == threads[t].tries + 1
       IN \/ \E q \in ParamsRead(t) :
                threads' = [threads EXCEPT
                               ![t].tries = c,
                               ![t].saw = {q},
                               ![t].st = IF exec_throws(c, threads[t].fails)
                                         THEN "catch" ELSE "success"]
          \/ /\ Writers(t) # {}
             /\ threads' = [threads EXCEPT
                               ![t].tries = c,
                               ![t].fails = IF exec_throws(c, @) THEN @ ELSE c,
                               ![t].st = "catch"]
    /\ Races(t)
    /\ UNCHANGED <<cfgVars, seqVars, params_, shared, pc, exc, result, flow_prep, bf_rest,
                   flow_calls, joined>>

\* cur_retry_ = 0;  // Reset retry counter on success
\* return result;
Traversal_Node_exec_success(t) ==
    /\ pc # "crashed"
    /\ threads[t].st = "success"
    /\ cur_retry_' = [cur_retry_ EXCEPT ![threads[t].current] = 0]
    /\ threads' = [threads EXCEPT ![t].st = "post"]
    /\ UNCHANGED <<cfgVars, current, last_action, prep_res, exec_res, action, arg, items,
                   results, last_err, fails, tries, sleeps, calls, post_args, fb_args, trace,
                   acts, plans, tasks, orch_params, stack, travs, raced,
                   params_, shared, pc, exc, result, flow_prep, bf_rest, flow_calls, joined>>

\* catch (const std::exception& e) { cur_retry_++; the increment of the
\* shared int is a load and a store: here the load, into a register of task t
Traversal_Node_exec_catch(t) ==
    /\ pc # "crashed"
    /\ threads[t].st = "catch"
    /\ threads' = [threads EXCEPT ![t].st = "store", ![t].reg = cur_retry_[threads[t].current]]
    /\ UNCHANGED <<cfgVars, seqVars, params_, shared, pc, exc, result, flow_prep, bf_rest,
                   flow_calls, joined, raced>>

\* cur_retry_++, the store: an increment another task has stored since the
\* load is lost; the register keeps the value stored
Traversal_Node_exec_store(t) ==
    /\ pc # "crashed"
    /\ threads[t].st = "store"
    /\ cur_retry_' = [cur_retry_ EXCEPT ![threads[t].current] = threads[t].reg + 1]
    /\ threads' = [threads EXCEPT ![t].st = "last", ![t].reg = @ + 1]
    /\ UNCHANGED <<cfgVars, current, last_action, prep_res, exec_res, action, arg, items,
                   results, last_err, fails, tries, sleeps, calls, post_args, fb_args, trace,
                   acts, plans, tasks, orch_params, stack, travs, raced,
                   params_, shared, pc, exc, result, flow_prep, bf_rest, flow_calls, joined>>

\* if (cur_retry_ >= max_retries_): the comparison reads the member again
\* or, in an optimised build, the register of the increment; otherwise the
\* backoff sleep, and the loop goes on
Traversal_Node_exec_last(t) ==
    /\ pc # "crashed"
    /\ threads[t].st = "last"
    /\ \E c \in {cur_retry_[threads[t].current], threads[t].reg} :
          threads' = [threads EXCEPT
                         ![t].st = IF exhausted(c, max_retries_[threads[t].current])
                                   THEN "fallback" ELSE "loop"]
    /\ UNCHANGED <<cfgVars, seqVars, params_, shared, pc, exc, result, flow_prep, bf_rest,
                   flow_calls, joined, raced>>

\* return exec_fallback(prep_res, e); an overriding exec_fallback reads
\* this->params_, the default one rethrows
Traversal_Node_exec_fallback(t) ==
    /\ pc # "crashed"
    /\ threads[t].st = "fallback"
    /\ kind[threads[t].current] = "Node"
    /\ IF fallback_kind[threads[t].current] = "default"
       THEN /\ Traversal_throw(t, Slice(ExecError(threads[t].tries)))
            /\ UNCHANGED raced
       ELSE /\ \/ \E q \in ParamsRead(t) :
                     IF fallback_kind[threads[t].current] = "throws"
                     THEN Traversal_fail(t, FallbackError, q)
                     ELSE threads' = [threads EXCEPT ![t].st = "post", ![t].fbs = @ + 1,
                                                     ![t].saw = {q}]
               \/ Traversal_read_fails(t)
            /\ Races(t)
    /\ UNCHANGED <<cfgVars, seqVars, params_, shared, pc, exc, result, flow_prep, bf_rest,
                   flow_calls, joined>>

\* post or post_async of the node: the hook reads this->params_
Traversal_post(t) ==
    /\ pc # "crashed"
    /\ threads[t].st = "post"
    /\ \/ \E q \in ParamsRead(t) :
             \/ Traversal_fail(t, PostError, q)
             \/ threads' = [threads EXCEPT ![t].st = "write", ![t].saw = {q}]
       \/ Traversal_read_fails(t)
    /\ Races(t)
    /\ UNCHANGED <<cfgVars, seqVars, params_, shared, pc, exc, result, flow_prep, bf_rest,
                   flow_calls, joined>>

\* the hook then writes to the context and returns its action; the tail of
\* the loop: last_action = action, current = get_next_node(current,
\* action_str), and return last_action when there is no successor
Traversal_post_write(t) ==
    /\ pc # "crashed"
    /\ threads[t].st = "write"
    /\ shared' = Append(shared, threads[t].current)
    /\ \E a \in PostActions(scenario, threads[t].current) :
          LET nxt == get_next_node(successors_, threads[t].current, action_str(a))
          IN threads' = [threads EXCEPT
                            ![t].last_action = a,
                            ![t].current = nxt,
                            ![t].st = IF nxt = NoNode THEN "returned" ELSE "iter"]
    /\ UNCHANGED <<cfgVars, seqVars, params_, pc, exc, result, flow_prep, bf_rest,
                   flow_calls, joined, raced>>

\* ------------------------------------------------------------------- Next
Next ==
    \/ NodeRun
    \/ FlowStart
    \/ FlowRun
    \/ OrchIter
    \/ OrchRoute
    \/ OrchReturn
    \/ NestedReturn
    \/ Prep
    \/ Post
    \/ Node_exec_begin
    \/ Node_exec_attempt
    \/ Node_exec_fallback
    \/ Node_exec_unexpected
    \/ BatchNode_exec_begin
    \/ BatchNode_exec_item
    \/ BatchNode_exec_return
    \/ NodeRunAsync
    \/ PrepAsync
    \/ PostAsync
    \/ AsyncNode_exec_launch
    \/ AsyncNode_exec_get
    \/ \E i \in DOMAIN tasks : Task_attempt(i)
    \/ \E i \in DOMAIN tasks : Task_fallback(i)
    \/ \E i \in DOMAIN tasks : Task_unexpected(i)
    \/ AsyncBatch_begin
    \/ AsyncBatch_launch
    \/ AsyncBatch_get
    \/ AsyncBatch_return
    \/ Parallel_begin
    \/ Parallel_launch
    \/ Parallel_join
    \/ Parallel_unwind
    \/ Parallel_return
    \/ BatchFlowRun
    \/ BatchFlow_next
    \/ BatchFlow_orch_return
    \/ BatchFlow_post
    \/ AsyncFlowRun
    \/ AsyncOrchIter
    \/ AsyncOrchRoute
    \/ AsyncOrchReturn
    \/ AsyncBatchFlowRun
    \/ AsyncBatchFlow_next
    \/ AsyncBatchFlow_orch_return
    \/ AsyncBatchFlow_post

Spec == Init /\ [][Next]_vars

\* run_async on an AsyncParallelBatchFlow: the flow's own thread and the
\* tasks of the traversals
InitPar == InitIn({ParallelScenario})

NextPar ==
    \/ ParallelBatchFlowRun
    \/ ParallelBatchFlow_launch
    \/ ParallelBatchFlow_get
    \/ ParallelBatchFlow_unwind
    \/ ParallelBatchFlow_post
    \/ \E t \in DOMAIN threads : Traversal_iter(t)
    \/ \E t \in DOMAIN threads : Traversal_set_params(t)
    \/ Traversal_crash
    \/ \E t \in DOMAIN threads : Traversal_prep(t)
    \/ \E t \in DOMAIN threads : Traversal_exec(t)
    \/ \E t \in DOMAIN threads : Traversal_exec_fallback(t)
    \/ \E t \in DOMAIN threads : Traversal_post(t)
    \/ \E t \in DOMAIN threads : Traversal_post_write(t)

SpecPar == InitPar /\ [][NextPar]_vars

\* ------------------------------------------- the three batch flows
\* BatchFlow(B) and AsyncBatchFlow(B) over B >> C, AsyncParallelBatchFlow(B)
\* over B >> C, each run once
BatchFlowScenarios == {"batch_flow", "async_batch_flow", ParallelScenario}
InitBatchFlows == InitIn(BatchFlowScenarios)

NextBatchFlows ==
    \/ FlowStart
    \/ BatchFlowRun
    \/ BatchFlow_next
    \/ BatchFlow_orch_return
    \/ BatchFlow_post
    \/ AsyncBatchFlowRun
    \/ AsyncBatchFlow_next
    \/ AsyncBatchFlow_orch_return
    \/ AsyncBatchFlow_post
    \/ OrchIter
    \/ OrchRoute
    \/ AsyncOrchIter
    \/ AsyncOrchRoute
    \/ Prep
    \/ Post
    \/ Node_exec_begin
    \/ Node_exec_attempt
    \/ Node_exec_fallback
    \/ PrepAsync
    \/ PostAsync
    \/ AsyncNode_exec_launch
    \/ AsyncNode_exec_get
    \/ \E i \in DOMAIN tasks : Task_attempt(i)
    \/ \E i \in DOMAIN tasks : Task_fallback(i)
    \/ ParallelBatchFlowRun
    \/ ParallelBatchFlow_launch
    \/ ParallelBatchFlow_get
    \/ ParallelBatchFlow_unwind
    \/ ParallelBatchFlow_post
    \/ \E t \in DOMAIN threads : Traversal_iter(t)
    \/ \E t \in DOMAIN threads : Traversal_set_params(t)
    \/ Traversal_crash
    \/ \E t \in DOMAIN threads : Traversal_prep(t)
    \/ \E t \in DOMAIN threads : Traversal_exec(t)
    \/ \E t \in DOMAIN threads : Traversal_exec_fallback(t)
    \/ \E t \in DOMAIN threads : Traversal_post(t)
    \/ \E t \in DOMAIN threads : Traversal_post_write(t)

SpecBatchFlows == InitBatchFlows /\ [][NextBatchFlows]_vars

\* the concurrent traversals of a parallel batch flow over a synchronous Node
InitRace == InitIn({RaceScenario})
NextRace ==
    \/ ParallelBatchFlowRun
    \/ ParallelBatchFlow_launch
    \/ ParallelBatchFlow_get
    \/ ParallelBatchFlow_unwind
    \/ ParallelBatchFlow_post
    \/ \E t \in DOMAIN threads : Traversal_iter(t)
    \/ \E t \in DOMAIN threads : Traversal_set_params(t)
    \/ Traversal_crash
    \/ \E t \in DOMAIN threads : Traversal_prep(t)
    \/ \E t \in DOMAIN threads : Traversal_Node_exec_enter(t)
    \/ \E t \in DOMAIN threads : Traversal_Node_exec_attempt(t)
    \/ \E t \in DOMAIN threads : Traversal_Node_exec_call(t)
    \/ \E t \in DOMAIN threads : Traversal_Node_exec_success(t)
    \/ \E t \in DOMAIN threads : Traversal_Node_exec_catch(t)
    \/ \E t \in DOMAIN threads : Traversal_Node_exec_store(t)
    \/ \E t \in DOMAIN threads : Traversal_Node_exec_last(t)
    \/ \E t \in DOMAIN threads : Traversal_Node_exec_fallback(t)
    \/ \E t \in DOMAIN threads : Traversal_post(t)
    \/ \E t \in DOMAIN threads : Traversal_post_write(t)
SpecRace == InitRace /\ [][NextRace]_vars

\* successive invocations of Node::_exec on one node: run called again and
\* again on a Node or a BatchNode, and the visits of the loop graph
InitRuns == InitIn({RerunScenario, "loop", RestartScenario})

NextRuns ==
    \/ NodeRun
    \/ RunAgain
    \/ FlowRun
    \/ FlowStartAgain
    \/ OrchIter
    \/ OrchRoute
    \/ OrchReturn
    \/ Prep
    \/ Post
    \/ Node_exec_begin
    \/ Node_exec_attempt
    \/ Node_exec_fallback
    \/ Node_exec_unexpected
    \/ BatchNode_exec_begin
    \/ BatchNode_exec_item
    \/ BatchNode_exec_return

SpecRuns == InitRuns /\ [][NextRuns]_vars

\* runs of a synchronous Flow over plain Nodes, on the acyclic graphs and on
\* the loop graph; the run is one sequential call, which goes on as long as
\* it has a step to take
InitFlows == InitIn({"chain", "branch", "branch_default", "empty_label", "loop"})
NextFlows ==
    \/ FlowRun
    \/ OrchIter
    \/ OrchRoute
    \/ OrchReturn
    \/ Prep
    \/ Post
    \/ Node_exec_begin
    \/ Node_exec_attempt
    \/ Node_exec_fallback
    \/ Node_exec_unexpected
SpecFlows == InitFlows /\ [][NextFlows]_vars /\ WF_vars(NextFlows)

\* building a graph, one registration after the other
InitBuild == InitIn({BuildScenario})
NextBuild ==
    \/ BaseNode_next
    \/ operator_shift
    \/ operator_shift_chained
    \/ ConditionalTransition_shift
    \/ Build_Flow_start
SpecBuild == InitBuild /\ [][NextBuild]_vars

\* ----------------------------------------------------------- properties
\* the node whose activation is running or was the last to run
Active == trace[Len(trace)]
\* the loop of _orch has routed on the action of the k-th activation
Routed(k) ==
    /\ scenario \in FlowScenarios
    /\ Len(acts) >= k
    /\ (Len(trace) > k \/ (Len(trace) = k /\ pc \in {"orch", "done"}))
\* the node the loop of _orch turned to after the k-th activation
NextAfter(k) == IF Len(trace) > k THEN trace[k + 1] ELSE current
IsPrefix(p, q) == Len(p) <= Len(q) /\ \A i \in 1..Len(p) : p[i] = q[i]

\* C1: on the default-action chain A -> B -> C whose nodes all return
\* "default", the activations are A, B, C, in that order and once each: at
\* any time the activated nodes are a prefix of <<A, B, C>>, after C's action
\* the loop has no current node and can only return, and a finished run has
\* activated exactly A, B, C.
C1_ChainVisitsEachOnceInOrder ==
    (scenario = "chain" /\ \A i \in DOMAIN acts : acts[i] = JStr("default")) =>
        /\ IsPrefix(trace, <<"A", "B", "C">>)
        /\ (Routed(3) => current = NoNode /\ ~ENABLED OrchIter)
        /\ (pc = "done" => trace = <<"A", "B", "C">> /\ Len(acts) = 3)

C1_Witness ==
    /\ scenario = "chain"
    /\ pc = "done"
    /\ trace = <<"A", "B", "C">>
    /\ acts = <<JStr("default"), JStr("default"), JStr("default")>>

\* C2: with decision -"x"-> X and decision -"y"-> Y, an action "x" of
\* decision makes X the next node and never Y, "y" makes Y the next and never
\* X, and an action with no registered successor, on a decision without
\* "default" successor, ends the run right after decision: no second node is
\* ever activated and the loop returns.
C2_BranchFollowsAction ==
    (scenario \in {"branch", "branch_default"} /\ Len(acts) >= 1) =>
        LET a == acts[1]
            registered == {l \in DOMAIN successors_["decision"] :
                              successors_["decision"][l] # NoNode}
        IN /\ trace[1] = "decision"
           /\ (a = JStr("x") /\ Routed(1) => NextAfter(1) = "X")
           /\ (a = JStr("y") /\ Routed(1) => NextAfter(1) = "Y")
           /\ (a = JStr("x") => \A i \in DOMAIN trace : trace[i] # "Y")
           /\ (a = JStr("y") => \A i \in DOMAIN trace : trace[i] # "X")
           /\ (action_str(a) \notin registered /\ "default" \notin registered =>
                  /\ Len(trace) = 1
                  /\ (Routed(1) => current = NoNode /\ ~ENABLED OrchIter)
                  /\ (pc = "orch" => ENABLED OrchReturn))

C2_Witness ==
    /\ scenario = "branch"
    /\ pc = "done"
    /\ acts = <<JStr("z")>>
    /\ trace = <<"decision">>

\* C3: get_next_node picks the successor registered under the action even
\* when a "default" successor exists; else, the action not being registered,
\* the "default" successor; with neither the result is null and the loop
\* ends.  Stated of every routing step of every run.
C3_SuccessorResolution ==
    \A k \in DOMAIN acts :
        Routed(k) =>
            LET n == trace[k]
                a == action_str(acts[k])
                registered == {l \in DOMAIN successors_[n] : successors_[n][l] # NoNode}
            IN /\ (a \in registered => NextAfter(k) = successors_[n][a])
               /\ (a \notin registered /\ "default" \in registered =>
                       NextAfter(k) = successors_[n]["default"])
               /\ (a \notin registered /\ "default" \notin registered =>
                       /\ Len(trace) = k
                       /\ current = NoNode
                       /\ ~ENABLED OrchIter)

C3_Witness ==
    /\ scenario = "branch_default"
    /\ Len(trace) >= 2
    /\ acts[1] = JStr("x")
    /\ trace[2] = "X"
    /\ get_successor(successors_, "decision", "default") = "D"

\* C7: on the loop-back graph every step of the traversal follows the
\* pattern decision, search, decision, ..., decision, answer: decision comes
\* first, search follows a decision that returned "search", decision follows
\* search, answer follows a decision that returned "answer", nothing follows
\* answer.  A run ends normally only after answer: with c the number of times
\* decision returned "search", a finished run has activated decision c+1
\* times, search c times and answer once, as its last node.
C7_LoopBack ==
    scenario = "loop" =>
        /\ \A i \in DOMAIN trace :
              /\ (i = 1 => trace[i] = "decision")
              /\ (i > 1 => \/ /\ trace[i - 1] = "decision"
                              /\ acts[i - 1] = JStr("search")
                              /\ trace[i] = "search"
                           \/ /\ trace[i - 1] = "search"
                              /\ trace[i] = "decision"
                           \/ /\ trace[i - 1] = "decision"
                              /\ acts[i - 1] = JStr("answer")
                              /\ trace[i] = "answer")
        /\ (pc = "done" =>
              LET c == Count(acts, JStr("search"))
              IN /\ trace[Len(trace)] = "answer"
                 /\ Count(trace, "answer") = 1
                 /\ Count(trace, "decision") = c + 1
                 /\ Count(trace, "search") = c
                 /\ Len(trace) = 2 * c + 2)

C7_Witness ==
    /\ scenario = "loop"
    /\ pc = "done"
    /\ trace = <<"decision", "search", "decision", "search", "decision", "answer">>

\* the activation under way is of a plain Node and its Node::_exec has been entered
NodeExecEntered ==
    /\ Len(trace) >= 1
    /\ kind[Active] = "Node"
    /\ Len(plans) = 1

\* C4: a Node with max_retries_ = N >= 1 whose exec throws on its first
\* k < N calls and then returns: exec is called k+1 times and no more,
\* exec_fallback is never called, no error comes out of the exec phase (the
\* run can fail only in post), and post is called with the result of call k+1.
C4_RetryThenSuccess ==
    (NodeExecEntered /\ max_retries_[Active] >= 1 /\ plans[1] < max_retries_[Active]) =>
        LET k == plans[1]
        IN /\ calls.exec <= k + 1
           /\ calls.fallback = 0
           /\ pc # "fallback"
           /\ (pc = "failed" => exc = PostError)
           /\ (pc \in {"post", "route", "orch", "done"} \/ calls.post >= 1 =>
                  /\ calls.exec = k + 1
                  /\ exec_res = ExecValue(prep_res, k + 1))
           /\ (calls.post >= 1 => post_args = <<prep_res, ExecValue(prep_res, k + 1)>>)

C4_Witness ==
    /\ scenario = "single"
    /\ kind["A"] = "Node"
    /\ max_retries_["A"] = 2
    /\ plans = <<1>>
    /\ pc = "done"
    /\ calls.exec = 2
    /\ calls.post = 1

\* C5: a Node with max_retries_ = N >= 1 whose exec throws on each of its
\* N calls: exec is called N times and no more, then exec_fallback once, with
\* the prepared input and the error of the N-th call; post receives what
\* exec_fallback returned; when exec_fallback throws, post is not called and
\* the error it threw is the error of the run.
C5_ExhaustedThenFallback ==
    (NodeExecEntered /\ max_retries_[Active] >= 1 /\ plans[1] >= max_retries_[Active]) =>
        LET N == max_retries_[Active]
            fk == fallback_kind[Active]
        IN /\ calls.exec <= N
           /\ calls.fallback <= 1
           /\ (pc = "retry" => calls.exec < N)
           /\ (pc = "fallback" => calls.exec = N /\ calls.fallback = 0
                                  /\ last_err = ExecError(N))
           /\ (calls.fallback = 1 =>
                  calls.exec = N /\ fb_args = <<prep_res, ExecError(N)>>)
           /\ (pc \notin {"retry", "fallback"} => calls.fallback = 1)
           /\ (calls.post >= 1 =>
                  /\ fk = "returns"
                  /\ post_args = <<prep_res, FallbackValue(prep_res, ExecError(N))>>)
           /\ (fk = "returns" => (pc = "failed" => exc = PostError))
           /\ (fk = "throws" /\ calls.fallback = 1 =>
                  pc = "failed" /\ exc = FallbackError /\ calls.post = 0)
           /\ (fk = "default" /\ calls.fallback = 1 =>
                  pc = "failed" /\ exc = Slice(ExecError(N)) /\ calls.post = 0)

C5_Witness ==
    /\ scenario = "single"
    /\ kind["A"] = "Node"
    /\ max_retries_["A"] = 2
    /\ fallback_kind["A"] = "returns"
    /\ plans = <<2>>
    /\ pc = "done"
    /\ calls.exec = 2
    /\ calls.fallback = 1
    /\ calls.post = 1

\* the running loop of _orch or _orch_async has not run a node yet
LoopFresh ==
    \/ stack # <<>> /\ stack[Len(stack)].from = Len(trace)
    \/ travs # <<>> /\ travs[Len(travs)].from = Len(trace)

\* C6: in every activation of a synchronous node prep is called once, then
\* _exec on exactly prep's output, then post once, with that same prep output
\* and with what _exec returned (exec's or exec_fallback's value); post is not
\* called before _exec has returned, and what post returns is the action of
\* the activation: the one the flow routes on (the last action of the loop,
\* once the loop has run a node), or the one run returns.
C6_Lifecycle ==
    (Len(trace) >= 1 /\ kind[Active] \in SyncKinds) =>
        /\ calls.prep <= 1
        /\ calls.post <= 1
        /\ (pc \in {"exec", "retry", "fallback", "batch", "post", "route", "aroute"} =>
               calls.prep = 1)
        /\ (pc = "prep" => calls = NoCalls)
        /\ (pc \in {"prep", "exec", "retry", "fallback", "batch", "post"} =>
               calls.post = 0)
        /\ (kind[Active] = "Node" /\ pc \in {"retry", "fallback"} => arg = prep_res)
        /\ (kind[Active] = "BatchNode" /\ pc = "batch" /\ is_array(prep_res) =>
               Len(results) + Len(items) = Len(prep_res.v))
        /\ (calls.post = 1 =>
               /\ calls.prep = 1
               /\ post_args = <<prep_res, exec_res>>
               /\ (kind[Active] = "Node" =>
                      /\ calls.exec >= 1
                      /\ exec_res = IF calls.fallback = 0
                                    THEN ExecValue(prep_res, calls.exec)
                                    ELSE FallbackValue(prep_res, last_err))
               /\ (kind[Active] = "BatchNode" =>
                      is_array(exec_res) /\ exec_res.v = results))
        /\ (pc \in {"route", "aroute"} => action = acts[Len(acts)] /\ Len(acts) = Len(trace))
        /\ (pc \in {"orch", "aorch"} /\ Len(acts) >= 1 /\ ~LoopFresh =>
               last_action = acts[Len(acts)])
        /\ (pc = "done" /\ Len(acts) >= 1
               /\ FlowClass(scenario) \notin {"BatchFlow", "AsyncBatchFlow"} =>
               result = acts[Len(acts)])

C6_Witness ==
    /\ scenario = "chain"
    /\ pc = "route"
    /\ Len(trace) = 2
    /\ calls = [prep |-> 1, exec |-> 2, fallback |-> 0, post |-> 1]
    /\ prep_res = JNum(2)
    /\ post_args = <<JNum(2), ExecValue(JNum(2), 2)>>

\* what the retry-wrapped exec yields for an item whose exec throws on its
\* first f calls, under max_retries_ = N >= 1 and a returning fallback
RetryResult(item, f, N) ==
    IF f < N THEN ExecValue(item, f + 1) ELSE FallbackValue(item, ExecError(N))

\* C8: a sequential batch node (BatchNode, AsyncBatchNode) whose prep
\* returned the array [i1..in] calls post with an array of length n whose
\* j-th element is the retry-wrapped exec result of i_j; and while it runs,
\* an element is started only when every element before it has completed, so
\* at most one element is in flight.
C8_SequentialBatch ==
    (Len(trace) >= 1 /\ kind[Active] \in {"BatchNode", "AsyncBatchNode"}
       /\ calls.prep = 1 /\ pc # "failed" /\ is_array(prep_res)) =>
        LET in == prep_res.v
            N == max_retries_[Active]
            sync == kind[Active] = "BatchNode"
            started == IF sync THEN Len(plans) ELSE Len(tasks)
            plan(j) == IF sync THEN plans[j] ELSE tasks[j].fails
        IN /\ started <= Len(in)
           /\ (sync /\ pc \in {"retry", "fallback"} =>
                  Len(results) = started - 1 /\ arg = in[started])
           /\ (~sync => \A j \in DOMAIN tasks :
                  /\ tasks[j].item = in[j]
                  /\ (j < Len(tasks) => Terminal(tasks[j]) /\ Len(results) >= j))
           /\ (calls.post >= 1 =>
                  /\ started = Len(in)
                  /\ is_array(post_args[2])
                  /\ Len(post_args[2].v) = Len(in)
                  /\ \A j \in 1..Len(in) :
                        post_args[2].v[j] = RetryResult(in[j], plan(j), N))

C8_Witness ==
    /\ scenario = "single"
    /\ kind["A"] = "BatchNode"
    /\ pc = "done"
    /\ prep_res = JArr(<<JNum(2), JNum(1)>>)
    /\ plans = <<1, 2>>
    /\ max_retries_["A"] = 2
    /\ Len(post_args[2].v) = 2

\* C9: under every interleaving of its tasks, the array a parallel batch
\* node hands to post_async is the array the sequential adapter
\* BatchNode::_exec returns for the same input array and the same exec
\* behaviour of every element.
C9_ParallelEqualsSequential ==
    (Len(trace) >= 1 /\ kind[Active] = "AsyncParallelBatchNode"
       /\ calls.post >= 1 /\ is_array(prep_res)) =>
        LET seq == BatchNode_exec_fn(prep_res.v, [j \in DOMAIN tasks |-> tasks[j].fails],
                                     max_retries_[Active], fallback_kind[Active])
        IN /\ Len(tasks) = Len(prep_res.v)
           /\ seq.ok
           /\ post_args[2] = seq.val

C9_Witness ==
    /\ scenario = "single_async"
    /\ kind["A"] = "AsyncParallelBatchNode"
    /\ pc = "done"
    /\ prep_res = JArr(<<JNum(2), JNum(1)>>)
    /\ Len(tasks) = 2
    /\ tasks[1].fails = 1
    /\ tasks[2].fails = 0
    /\ max_retries_["A"] = 2
    /\ post_args[2] = JArr(<<ExecValue(JNum(2), 2), ExecValue(JNum(1), 1)>>)

\* retry-controlled invocations of this activation that ran out of attempts
Exhaustions ==
    IF kind[Active] \in SyncKinds
    THEN Cardinality({j \in DOMAIN plans : plans[j] >= max_retries_[Active]})
    ELSE Cardinality({j \in DOMAIN tasks : tasks[j].fails >= max_retries_[Active]})

\* C10: an error thrown by prep or post (prep_async, post_async) ends the
\* run at once with that error, whatever max_retries_ is: the failing phase
\* has been called once, after a failing prep neither exec nor exec_fallback
\* nor post is called, a failing post adds no exec_fallback call (those made
\* are the ones of exhausted exec retries), and nothing runs afterwards, in
\* particular no successor is activated.
C10_PrepPostErrorsPropagate ==
    (pc = "failed" /\ exc \in {PrepError, PostError}) =>
        /\ ~ENABLED Next
        /\ result = JNull
        /\ (exc = PrepError =>
               /\ calls = [prep |-> 1, exec |-> 0, fallback |-> 0, post |-> 0]
               /\ Len(acts) = Len(trace) - 1)
        /\ (exc = PostError =>
               /\ calls.prep = 1
               /\ calls.post = 1
               /\ calls.fallback = Exhaustions
               /\ Len(acts) = Len(trace) - 1)

C10_Witness ==
    /\ scenario = "chain"
    /\ max_retries_["B"] = 2
    /\ pc = "failed"
    /\ exc = PrepError
    /\ trace = <<"A", "B">>

\* the context holds the writes of the posts that completed, in order
ContextHoldsCompleted == shared = SubSeq(trace, 1, Len(acts))

\* C11: when the k-th activated node of a run of a synchronous flow fails
\* with an error that leaves the run, the first k-1 nodes have completed and
\* the context the caller holds contains the writes of their posts, in order;
\* nothing runs after the failure, so no further node is activated.
C11_NoRollback ==
    (scenario \in SyncFlowScenarios /\ pc = "failed") =>
        /\ Len(trace) >= 1
        /\ Len(acts) = Len(trace) - 1
        /\ Len(shared) = Len(trace) - 1
        /\ \A i \in 1..(Len(trace) - 1) : shared[i] = trace[i]
        /\ exc # NoExc
        /\ ~ENABLED Next

C11_Witness ==
    /\ scenario = "chain"
    /\ pc = "failed"
    /\ exc = FallbackError
    /\ trace = <<"A", "B", "C">>
    /\ shared = <<"A", "B">>

\* C12: an AsyncNode reached through the synchronous path (run on the node,
\* or a synchronous Flow whose loop reaches it) fails at once with the
\* capability error: no phase of the node has been called and no task has been
\* launched, whatever max_retries_ is; the context holds exactly the writes of
\* the nodes completed before; and nothing runs afterwards.
C12_AsyncNodeOnSyncPath ==
    (scenario \in {"single", "sync_mixed"} /\ Len(trace) >= 1
       /\ kind[Active] \in AsyncKinds) =>
        /\ pc = "failed"
        /\ exc = CapabilityError
        /\ calls = NoCalls
        /\ tasks = <<>>
        /\ plans = <<>>
        /\ Len(acts) = Len(trace) - 1
        /\ ContextHoldsCompleted
        /\ result = JNull
        /\ ~ENABLED Next

C12_Witness ==
    /\ scenario = "sync_mixed"
    /\ kind["B"] = "AsyncNode"
    /\ max_retries_["B"] = 2
    /\ pc = "failed"
    /\ exc = CapabilityError
    /\ trace = <<"A", "B">>
    /\ shared = <<"A">>

\* C13: an AsyncFlow over the chain A >> B >> C of Nodes and AsyncNodes
\* activates A, B, C in that order, once each; a node is started only when the
\* lifecycle of the node before it has completed (its post has returned, its
\* tasks have ended); a synchronous node runs without any task; every node
\* writes to the one context; and no capability error arises.
C13_AsyncFlowMixedChain ==
    scenario = "async_mixed" =>
        /\ IsPrefix(trace, <<"A", "B", "C">>)
        /\ Len(acts) \in {Len(trace), Len(trace) - 1}
        /\ ContextHoldsCompleted
        /\ (pc \in {"aorch", "aroute", "done"} /\ Len(trace) >= 1 =>
               /\ Len(acts) = Len(trace)
               /\ calls.prep = 1 /\ calls.post = 1
               /\ \A i \in DOMAIN tasks : Terminal(tasks[i]))
        /\ (Len(trace) >= 1 /\ kind[Active] = "Node" => tasks = <<>>)
        /\ (Len(trace) >= 1 /\ kind[Active] = "AsyncNode" =>
               /\ plans = <<>>
               /\ (calls.post = 1 => Len(tasks) = 1 /\ tasks[1].st = "ok"))
        /\ (pc = "failed" => exc \in {PrepError, PostError, FallbackError})
        /\ (pc = "done" => trace = <<"A", "B", "C">> /\ shared = <<"A", "B", "C">>)

C13_Witness ==
    /\ scenario = "async_mixed"
    /\ kind["A"] = "Node"
    /\ kind["B"] = "AsyncNode"
    /\ kind["C"] = "Node"
    /\ pc = "done"
    /\ trace = <<"A", "B", "C">>
    /\ shared = <<"A", "B", "C">>

\* the successor the outer loop must pick for the nested flow F on action a:
\* the one registered under a, else the one registered under "default"
OuterSuccessor(a) ==
    IF a \in DOMAIN successors_["F"] THEN successors_["F"][a]
    ELSE successors_["F"]["default"]
InnerNodes == {"P", "Q"}

\* C14: with the flow F = Flow(P), P -"go"-> Q, nested in A >> F >> B,
\* F -"x"-> X: the action F hands to the outer loop is the action of the last
\* node activated inside F; the node the outer loop turns to after F is the
\* successor of F registered under that action, else under "default"; and the
\* inner nodes write to the same context as the outer ones.
C14_NestedFlowAction ==
    scenario = "nested" =>
        /\ ContextHoldsCompleted
        /\ IsPrefix(<<"A", "P">>, trace) \/ IsPrefix(trace, <<"A", "P">>)
        /\ (pc = "route" /\ current = "F" =>
               /\ Active \in InnerNodes
               /\ Len(acts) = Len(trace)
               /\ action = acts[Len(acts)])
        /\ (pc = "orch" /\ stack = <<>> /\ Len(trace) >= 1 /\ Active \in InnerNodes =>
               /\ last_action = acts[Len(acts)]
               /\ current = OuterSuccessor(action_str(acts[Len(acts)])))
        /\ \A i \in 1..(Len(trace) - 1) :
              /\ (trace[i] = "P" /\ acts[i] = JStr("go") => trace[i + 1] = "Q")
              /\ (trace[i] \in InnerNodes /\ trace[i + 1] \notin InnerNodes =>
                     trace[i + 1] = OuterSuccessor(action_str(acts[i])))
              /\ (trace[i] = "P" /\ acts[i] # JStr("go") => trace[i + 1] # "Q")
        /\ (pc = "done" => result = acts[Len(acts)])

C14_Witness ==
    /\ scenario = "nested"
    /\ pc = "done"
    /\ trace = <<"A", "P", "Q", "X">>
    /\ acts[3] = JStr("x")
    /\ shared = <<"A", "P", "Q", "X">>

\* the keys of a parameter value
Keys(j) == IF is_object(j) THEN DOMAIN j.v ELSE {}
\* j is the object holding the keys of cp with cp's values and the other keys
\* of fp with fp's values
IsOverlay(j, fp, cp) ==
    /\ is_object(j)
    /\ DOMAIN j.v = Keys(fp) \cup Keys(cp)
    /\ \A k \in DOMAIN j.v : j.v[k] = IF k \in Keys(cp) THEN cp.v[k] ELSE fp.v[k]

\* C15: in a run of Flow::_orch or AsyncFlow::_orch_async with call
\* parameters cp on a flow with parameters fp, one of them an object, every
\* activated node holds the parameters made of cp's keys with cp's values and
\* of fp's other keys with fp's values; with neither an object the node's
\* parameters are not assigned; a node not activated keeps its parameters.
C15_ParamsOverlay ==
    scenario \in {"params", "async_mixed"} =>
        LET fp == params_[TheFlow]
            cp == flow_prep
        IN /\ pc # "start" =>
                \A n \in Nodes :
                    IF \E i \in DOMAIN trace : trace[i] = n
                    THEN IF is_object(fp) \/ is_object(cp)
                         THEN IsOverlay(params_[n], fp, cp)
                         ELSE params_[n] = JNull
                    ELSE params_[n] = JNull
           /\ orch_params = cp

C15_Witness ==
    /\ scenario = "params"
    /\ params_[TheFlow] = JObj("a" :> 1 @@ "c" :> 1)
    /\ flow_prep = JObj("a" :> 2)
    /\ pc = "post"
    /\ current = "C"
    /\ params_["B"] = JObj("a" :> 2 @@ "c" :> 1)
    /\ params_["C"] = JObj("a" :> 2 @@ "c" :> 1)

\* a node lifecycle is under way
InLifecycle ==
    pc \in {"prep", "exec", "retry", "fallback", "post",
            "prep_async", "exec_async", "exec_get", "post_async"}

\* C16: a BatchFlow or AsyncBatchFlow whose prep returned the array
\* [p1..pn] of parameter objects runs one traversal per element, in the order
\* of the array and each from the start node; a traversal is started only when
\* all earlier ones have returned; every node activated in traversal i runs
\* with the flow's parameters overlaid with p_i; the flow's post is called
\* once, after the n-th traversal has returned, and then the run is over. A
\* traversal of a flow whose start node is null activates no node.
C16_SequentialBatchFlow ==
    (/\ scenario \in {"batch_flow", "async_batch_flow"}
     /\ is_array(flow_prep)
     /\ \A i \in DOMAIN flow_prep.v : is_object(flow_prep.v[i])) =>
        LET ps == flow_prep.v
            n == Len(ps)
            fp == params_[TheFlow]
        IN /\ Len(travs) <= n
           /\ Len(travs) + Len(bf_rest) = n
           /\ \A i \in DOMAIN travs :
                 /\ travs[i].p = ps[i]
                 /\ (i < Len(travs) => travs[i].done)
                 /\ (i < Len(travs) /\ start_node_[TheFlow] # NoNode =>
                        travs[i].from < travs[i + 1].from)
                 /\ (Len(trace) > travs[i].from =>
                        trace[travs[i].from + 1] = start_node_[TheFlow])
           /\ (InLifecycle =>
                 /\ travs # <<>>
                 /\ ~travs[Len(travs)].done
                 /\ IsOverlay(orch_params, fp, ps[Len(travs)])
                 /\ IsOverlay(params_[current], fp, ps[Len(travs)]))
           /\ flow_calls.prep = 1
           /\ flow_calls.post <= 1
           /\ (flow_calls.post = 1 <=> pc = "done")
           /\ (pc = "done" =>
                 /\ Len(travs) = n
                 /\ \A i \in DOMAIN travs : travs[i].done
                 /\ Len(trace) = IF start_node_[TheFlow] = NoNode THEN 0 ELSE 2 * n
                 /\ ~ENABLED Next)

C16_Witness ==
    /\ scenario = "batch_flow"
    /\ params_[TheFlow] = JObj("a" :> 1 @@ "c" :> 1)
    /\ flow_prep = JArr(<<JObj("a" :> 2), JObj("b" :> 2)>>)
    /\ pc = "done"
    /\ trace = <<"B", "C", "B", "C">>
    /\ params_["C"] = JObj("a" :> 1 @@ "b" :> 2 @@ "c" :> 1)
    /\ flow_calls.post = 1

\* a parallel batch node has received the array of its prep
ParallelBatchRuns ==
    /\ scenario = "single_async"
    /\ Len(trace) >= 1
    /\ kind[Active] = "AsyncParallelBatchNode"
    /\ calls.prep = 1
    /\ is_array(prep_res)

\* C19: in a parallel batch node, exec_fallback is called for the elements
\* that ran out of attempts and only for them, once each, with the element's
\* own input and the error of its last attempt; what it returns is the result
\* at the element's index; every other element gets at its own index the
\* result of its own exec; a task that has not ended can always take its next
\* step whatever its siblings did, and the exec phase ends, by a result or by
\* an error, only when every task of the batch has ended.
C19_ParallelFallbackIsolated ==
    ParallelBatchRuns =>
        LET in == prep_res.v
            N == max_retries_[Active]
            fk == fallback_kind[Active]
        IN /\ Len(tasks) <= Len(in)
           /\ calls.fallback = Cardinality({i \in DOMAIN tasks : tasks[i].fbs = 1})
           /\ \A i \in DOMAIN tasks :
                 LET t == tasks[i]
                 IN /\ t.item = in[i]
                    /\ t.fbs <= 1
                    /\ (t.fbs = 1 =>
                           /\ N >= 1 /\ t.fails >= N /\ t.tries = N
                           /\ t.fb_args = <<in[i], ExecError(N)>>)
                    /\ (t.fbs = 1 /\ fk = "returns" =>
                           t.st = "ok" /\ t.val = FallbackValue(in[i], ExecError(N)))
                    /\ (N >= 1 /\ t.fails < N =>
                           /\ t.fbs = 0
                           /\ t.st \in {"run", "ok"}
                           /\ (t.st = "ok" => t.val = ExecValue(in[i], t.fails + 1)))
                    /\ (~Terminal(t) =>
                           ENABLED (Task_attempt(i) \/ Task_fallback(i) \/ Task_unexpected(i)))
                    /\ (i <= Len(results) => t.st = "ok" /\ results[i] = t.val)
           /\ (pc \in {"failed", "post_async", "done"} =>
                 /\ Len(tasks) = Len(in)
                 /\ \A i \in DOMAIN tasks : Terminal(tasks[i]))
           /\ (calls.post >= 1 =>
                 /\ Len(post_args[2].v) = Len(in)
                 /\ \A i \in DOMAIN tasks : post_args[2].v[i] = tasks[i].val)

C19_Witness ==
    /\ ParallelBatchRuns
    /\ max_retries_["A"] = 2
    /\ fallback_kind["A"] = "returns"
    /\ prep_res = JArr(<<JNum(1), JNum(2)>>)
    /\ Len(tasks) = 2
    /\ tasks[1].fails = 2
    /\ tasks[2].fails = 1
    /\ pc = "done"
    /\ post_args[2] = JArr(<<FallbackValue(JNum(1), ExecError(2)), ExecValue(JNum(2), 2)>>)

\* the exec calls the retry loop makes for an element whose exec throws on
\* its first f calls, under max_retries_ = N
AttemptsFor(f, N) == IF N <= 0 THEN 0 ELSE IF f < N THEN f + 1 ELSE N

RECURSIVE SumTries(_)
SumTries(ts) == IF ts = <<>> THEN 0 ELSE Head(ts).tries + SumTries(Tail(ts))

\* C20: the tasks of a parallel batch node keep their attempt counts to
\* themselves: the member cur_retry_ of the node is never written, the
\* counter of a task is the number of its own failed attempts, a task that
\* has ended has made the attempts its own failures call for, under every
\* interleaving; and results is written by the join loop only, after all
\* tasks are launched, in the order of the futures.
C20_ParallelTasksIndependent ==
    ParallelBatchRuns =>
        LET N == max_retries_[Active]
        IN /\ cur_retry_[Active] = 0
           /\ calls.exec = SumTries(tasks)
           /\ \A i \in DOMAIN tasks :
                 LET t == tasks[i]
                 IN /\ t.tries <= AttemptsFor(t.fails, N)
                    /\ t.cur_retry = IF t.tries <= t.fails THEN t.tries ELSE t.fails
                    /\ (Terminal(t) => t.tries = AttemptsFor(t.fails, N))
           /\ Len(results) <= Len(tasks)
           /\ (items # <<>> => results = <<>>)
           /\ \A j \in DOMAIN results : Terminal(tasks[j])

C20_Witness ==
    /\ ParallelBatchRuns
    /\ max_retries_["A"] = 2
    /\ Len(tasks) = 2
    /\ tasks[1].fails = 2
    /\ tasks[1].tries = 2
    /\ tasks[2].fails = 0
    /\ tasks[2].tries = 1
    /\ tasks[2].st = "ok"
    /\ tasks[1].st = "fallback"

\* the parameter sets of the output of the flow's prep
LaunchList == IF is_array(flow_prep) THEN flow_prep.v ELSE <<>>

\* an error that a phase of a node of a traversal raises
RaisedByPhase(e) == e.type = "user_error" \/ e = Slice(e)

\* C17: an AsyncParallelBatchFlow whose prep returned the array [p1..pn]
\* launches exactly one traversal per element, the t-th with the flow's
\* parameters overlaid with p_t; no future is awaited before all n traversals
\* are launched; post_async of the flow is called exactly once, when every
\* launched traversal has returned, and the run then returns; the only other
\* end of a run is the error a phase of a node raised in a traversal, thrown
\* when every launched traversal is over; run_async resolves in no state
\* where a traversal is still running.
C17_ParallelBatchFlowJoin ==
    scenario = ParallelScenario =>
        /\ Len(threads) + Len(bf_rest) = Len(LaunchList)
        /\ \A t \in DOMAIN threads :
              threads[t].p = batch_combined(params_[TheFlow], LaunchList[t])
        /\ joined <= Len(threads)
        /\ \A t \in 1..joined : Terminated(t)
        /\ (joined > 0 \/ pc = "apbf_unwind") => bf_rest = <<>>
        /\ flow_calls.prep <= 1
        /\ flow_calls.post <= 1
        /\ (flow_calls.post = 1 <=> pc = "done")
        /\ (pc = "done" =>
              /\ Len(threads) = Len(LaunchList)
              /\ joined = Len(threads)
              /\ \A t \in DOMAIN threads : threads[t].st = "returned")
        /\ (pc \in {"done", "failed"} =>
              /\ \A t \in DOMAIN threads : Terminated(t)
              /\ ~ENABLED NextPar)
        /\ (pc = "failed" =>
              /\ flow_calls.post = 0
              /\ RaisedByPhase(exc)
              /\ \E t \in DOMAIN threads : threads[t].st = "failed" /\ exc = threads[t].exc)
        /\ \A t \in DOMAIN threads :
              threads[t].st = "failed" => RaisedByPhase(threads[t].exc)
        /\ pc \in {"start", "apbf", "apbf_unwind", "done", "failed"}

\* C18: in an AsyncParallelBatchFlow every phase of every node activated in
\* the traversal launched for the element p runs with the node's parameters
\* equal to the flow's parameters overlaid with p (the flow's parameters when
\* p is not an object), whatever the sibling traversals do in between.
C18_TraversalParamsIsolated ==
    scenario = ParallelScenario =>
        \A t \in DOMAIN threads :
            \A q \in threads[t].saw :
                q = batch_combined(params_[TheFlow], LaunchList[t])

\* the lifecycle of a plain AsyncNode is under way
AsyncActivation ==
    /\ current # NoNode
    /\ kind[current] = "AsyncNode"
    /\ pc \in {"prep_async", "exec_async", "exec_get", "post_async"}

\* C21: in an activation of an AsyncNode no exec attempt is made and no task
\* exists before prep_async has returned; while the task of _exec_async runs
\* its attempts and its fallback, the lifecycle waits in exec_future.get() and
\* post_async has not been called; post_async starts only when that task has
\* returned its value; the task makes its attempts one after the other, each
\* but the first after the failure of the one before, and at most one fallback
\* after the last.
C21_AsyncPhasesSequential ==
    AsyncActivation =>
        /\ Len(tasks) <= 1
        /\ calls.post = 0
        /\ (pc = "prep_async" => calls = NoCalls /\ tasks = <<>>)
        /\ (pc = "exec_async" =>
              /\ tasks = <<>>
              /\ calls = [NoCalls EXCEPT !.prep = 1])
        /\ (pc \in {"exec_get", "post_async"} =>
              /\ Len(tasks) = 1
              /\ calls.prep = 1
              /\ LET t == tasks[1]
                 IN /\ t.item = prep_res
                    /\ calls.exec = t.tries
                    /\ calls.fallback = t.fbs
                    /\ t.tries <= AttemptsFor(t.fails, max_retries_[current])
                    /\ t.cur_retry = (IF t.st = "ok" /\ t.fbs = 0 THEN t.tries - 1 ELSE t.tries)
                    /\ t.cur_retry <= t.fails
                    /\ t.fbs <= 1
                    /\ (t.fbs = 1 => Terminal(t) /\ t.tries = max_retries_[current])
                    /\ (t.st = "fallback" => t.tries = max_retries_[current]))
        /\ (pc = "post_async" =>
              /\ tasks[1].st = "ok"
              /\ exec_res = tasks[1].val)

C21_Witness ==
    /\ scenario = "single_async"
    /\ kind["A"] = "AsyncNode"
    /\ pc = "post_async"
    /\ max_retries_["A"] = MaxAttempts
    /\ tasks[1].tries = MaxAttempts
    /\ tasks[1].fbs = 1
    /\ exec_res = FallbackValue(prep_res, ExecError(MaxAttempts))

\* the loop of Flow::_orch has routed on the action of the k-th activation of
\* a run over one of the plain graphs
RoutedOn(k) ==
    /\ scenario \in FlowScenarios \cup {"empty_label"}
    /\ Len(acts) >= k
    /\ (Len(trace) > k \/ (Len(trace) = k /\ pc \in {"orch", "done"}))

\* the node a "default" action selects after node n, nullptr ending the run
DefaultRoute(n) == get_successor(successors_, n, "default")

\* C22 as claimed: after a node whose post returned null or the empty string
\* the loop turns to the successor registered under "default", and ends when
\* there is none.
C22_NullOrEmptyIsDefault ==
    \A k \in DOMAIN acts :
        (RoutedOn(k) /\ acts[k] \in {JNull, JStr("")}) =>
            NextAfter(k) = DefaultRoute(trace[k])

\* C22, amended: a null action is routed as "default"; the empty string is
\* looked up as a label of its own, so it selects the successor registered
\* under "" when there is one, and is routed as "default" only otherwise.
C22_NullIsDefaultEmptyIsLabel ==
    \A k \in DOMAIN acts :
        RoutedOn(k) =>
            /\ (acts[k] = JNull => NextAfter(k) = DefaultRoute(trace[k]))
            /\ (acts[k] = JStr("") =>
                  NextAfter(k) = IF get_successor(successors_, trace[k], "") # NoNode
                                 THEN get_successor(successors_, trace[k], "")
                                 ELSE DefaultRoute(trace[k]))

C22_Witness ==
    /\ scenario = "empty_label"
    /\ acts = <<JStr("")>>
    /\ trace = <<"decision", "X">>
    /\ pc = "prep"

\* C23: every invocation of Node::_exec starts its count at zero, whatever
\* the invocation before it on the same node left behind (a success, a
\* fallback result or an error that left the run): inside the loop the
\* counter equals the failures of this invocation, an attempt is possible as
\* long as these are fewer than max_retries_, the fallback is reached after
\* exactly max_retries_ failed attempts, and an invocation that is over has
\* made min(f + 1, max_retries_) attempts when its exec throws f times.
C23_CounterResetPerInvocation ==
    (Len(trace) >= 1 /\ plans # <<>>) =>
        LET N == max_retries_[Active]
            f == plans[Len(plans)]
        IN /\ fails = f
           /\ tries <= AttemptsFor(f, N)
           /\ (pc = "retry" =>
                 /\ cur_retry_[Active] = tries
                 /\ tries <= f
                 /\ (tries < N => ENABLED Node_exec_attempt)
                 /\ (tries >= N => N = 0 /\ ENABLED Node_exec_unexpected))
           /\ (pc = "fallback" => tries = N /\ f >= N /\ cur_retry_[Active] = N)
           /\ (pc \in {"batch", "post", "route", "orch", "done"} =>
                 tries = AttemptsFor(f, N))
           /\ (pc = "failed" /\ N >= 1 /\ calls.post = 0 => tries = N /\ f >= N)

\* a second run whose first attempt failed and whose second succeeded, after
\* a first run that ended with the error of its fallback
C23_Witness ==
    /\ scenario = RerunScenario
    /\ kind["A"] = "Node"
    /\ max_retries_["A"] = MaxAttempts
    /\ fallback_kind["A"] = "throws"
    /\ Len(trace) = 2
    /\ exc = FallbackError
    /\ pc = "done"
    /\ fails = MaxAttempts - 1
    /\ tries = MaxAttempts

\* C24: when the exec_fallback of a node throws, after max_retries_ failed
\* attempts, that error ends the invocation: on the synchronous path the run
\* has failed with it at once; a task of _exec_async holds it, has made
\* max_retries_ attempts and one fallback call and takes no further step; a
\* run that has failed with it has not called post for that activation, has
\* returned nothing, has activated no successor and takes no further step,
\* and exec_fallback has been called once per exhausted invocation.
C24_FallbackErrorPropagates ==
    Len(trace) >= 1 =>
        LET N == max_retries_[Active]
            throws == fallback_kind[Active] = "throws"
        IN /\ (throws /\ kind[Active] \in SyncKinds /\ calls.fallback >= 1 =>
                 /\ pc = "failed"
                 /\ exc = FallbackError
                 /\ calls.fallback = 1
                 /\ tries = N)
           /\ \A i \in DOMAIN tasks :
                 (throws /\ tasks[i].fbs >= 1) =>
                     /\ tasks[i].st = "err"
                     /\ tasks[i].err = FallbackError
                     /\ tasks[i].fbs = 1
                     /\ tasks[i].tries = N
                     /\ ~ENABLED Task_attempt(i)
                     /\ ~ENABLED Task_fallback(i)
           /\ (throws /\ kind[Active] = "AsyncNode" /\ tasks # <<>> /\ tasks[1].st = "err"
                 /\ tasks[1].err = FallbackError =>
                 /\ pc \in {"exec_get", "failed"}
                 /\ (pc = "failed" => exc = FallbackError /\ calls.fallback = 1
                                      /\ calls.exec = N))
           /\ (pc = "failed" /\ exc = FallbackError =>
                 /\ throws
                 /\ calls.post = 0
                 /\ calls.fallback = Exhaustions
                 /\ result = JNull
                 /\ Len(acts) = Len(trace) - 1
                 /\ ~ENABLED Next)

C24_Witness ==
    /\ scenario = "async_mixed"
    /\ kind["B"] = "AsyncNode"
    /\ fallback_kind["B"] = "throws"
    /\ trace = <<"A", "B">>
    /\ pc = "failed"
    /\ exc = FallbackError
    /\ tasks[1].fbs = 1
    /\ shared = <<"A">>

\* C25: when every exec attempt of an invocation has failed and the node
\* keeps the default exec_fallback, the error the caller of run or run_async
\* receives is the error thrown by the last attempt, with its type and its
\* message.
C25_OriginalErrorObserved ==
    (Len(trace) >= 1 /\ pc = "failed" /\ fallback_kind[Active] = "default"
       /\ calls.fallback >= 1) =>
        exc = ExecError(max_retries_[Active])

\* C26: an AsyncFlow over AsyncNodes placed as a node of an AsyncFlow is run
\* as a sub-orchestration whose nodes go through their async lifecycle, and the
\* outer run does not fail with the capability error.
C26_NestedAsyncFlowRuns ==
    scenario = "async_nested" => ~(pc = "failed" /\ exc = CapabilityError)

RECURSIVE SumSeq(_)
SumSeq(q) == IF q = <<>> THEN 0 ELSE Head(q) + SumSeq(Tail(q))

\* the waits due after `failed` failed attempts of an invocation with base
\* delay d and N attempts: d * 2^(j-1) after the j-th failure, j < N
BackoffSchedule(d, N, failed) ==
    LET m == IF d <= 0 \/ N <= 1 THEN 0 ELSE IF failed < N THEN failed ELSE N - 1
    IN [j \in 1..m |-> d * 2 ^ (j - 1)]
\* the attempts of an invocation that have failed, of `made` made when the
\* first f throw
FailedOf(made, f) == IF made <= f THEN made ELSE f

\* C27: on the synchronous and on the asynchronous retry path, an invocation
\* with base delay d > 0 and N attempts has waited d * 2^(j-1) after its j-th
\* failed attempt for every j < N and before the next attempt, never after the
\* N-th failure, never with d = 0; once exhausted it has waited
\* d * (2^(N-1) - 1) in total.
C27_BackoffSchedule ==
    /\ (Len(trace) >= 1 /\ plans # <<>> /\ kind[Active] \in SyncKinds) =>
          LET d == wait_[Active]
              N == max_retries_[Active]
          IN /\ sleeps = BackoffSchedule(d, N, FailedOf(tries, fails))
             /\ (pc = "retry" /\ FailedOf(tries, fails) = tries /\ tries < N /\ d > 0) =>
                    Len(sleeps) = tries
             /\ (N >= 1 /\ FailedOf(tries, fails) = N) =>
                    SumSeq(sleeps) = d * (2 ^ (N - 1) - 1)
    /\ (current # NoNode /\ kind[current] \in AsyncKinds) =>
          \A i \in DOMAIN tasks :
              LET t == tasks[i]
                  d == wait_[current]
                  N == max_retries_[current]
              IN /\ t.sleeps = BackoffSchedule(d, N, FailedOf(t.tries, t.fails))
                 /\ (t.st = "run" /\ FailedOf(t.tries, t.fails) = t.tries
                        /\ t.tries < N /\ d > 0) =>
                        Len(t.sleeps) = t.tries
                 /\ (N >= 1 /\ FailedOf(t.tries, t.fails) = N) =>
                        SumSeq(t.sleeps) = d * (2 ^ (N - 1) - 1)

C27_Witness ==
    /\ scenario = "backoff"
    /\ wait_["A"] = BaseWait
    /\ max_retries_["A"] = MaxAttempts + 2
    /\ pc = "fallback"
    /\ tries = MaxAttempts + 2
    /\ Len(sleeps) = MaxAttempts + 1
    /\ sleeps[MaxAttempts + 1] = BaseWait * 2 ^ MaxAttempts

\* a batch node run on its own has called prep
BatchAdapterRuns ==
    /\ scenario \in {"single", "single_async"}
    /\ Len(trace) >= 1
    /\ kind[Active] \in BatchKinds
    /\ calls.prep >= 1
    /\ ~(pc = "failed" /\ exc = PrepError)
\* the elements Node::_exec or AsyncNode::_exec_async has been invoked on
ElementsStarted ==
    IF kind[Active] \in SyncKinds
    THEN [j \in DOMAIN plans |-> IF j = Len(plans) THEN arg ELSE JNull]
    ELSE [j \in DOMAIN tasks |-> tasks[j].item]

\* C28: BatchNode, AsyncBatchNode and AsyncParallelBatchNode process a prep
\* output that is not an array as a batch of that one value (one retried
\* invocation on it, one exec call when it does not fail, an output array of
\* length 1) and an empty array with no exec call and an empty output array;
\* post is called at most once, and exactly once when the run completes,
\* which a run on an empty array does unless post itself throws.
C28_DegenerateBatches ==
    BatchAdapterRuns =>
        /\ calls.post <= 1
        /\ (pc = "done" => calls.post = 1)
        /\ (~is_array(prep_res) =>
              /\ Len(ElementsStarted) <= 1
              /\ \A j \in DOMAIN ElementsStarted : ElementsStarted[j] = prep_res
              /\ (calls.post = 1 =>
                    /\ Len(ElementsStarted) = 1
                    /\ is_array(post_args[2])
                    /\ Len(post_args[2].v) = 1
                    /\ post_args[2].v[1] \in
                          {ExecValue(prep_res, c) : c \in 1..max_retries_[Active]}
                          \cup {FallbackValue(prep_res, ExecError(max_retries_[Active]))}
                    /\ (post_args[2].v[1] = ExecValue(prep_res, 1) <=> calls.exec = 1
                            /\ calls.fallback = 0)))
        /\ (prep_res = JArr(<<>>) =>
              /\ calls.exec = 0
              /\ calls.fallback = 0
              /\ Len(ElementsStarted) = 0
              /\ (calls.post = 1 => post_args[2] = JArr(<<>>))
              /\ (pc = "failed" => exc = PostError)
              /\ (pc \notin {"done", "failed"} => ENABLED Next))

C28_Witness ==
    /\ scenario = "single_async"
    /\ kind["A"] = "AsyncBatchNode"
    /\ prep_res = JNum(1)
    /\ pc = "done"
    /\ calls = [prep |-> 1, exec |-> 1, fallback |-> 0, post |-> 1]
    /\ post_args[2] = JArr(<<ExecValue(JNum(1), 1)>>)

\* the registrations made on node n under label l, by position
RegistrationsOf(n, l) == {i \in DOMAIN built : built[i].src = n /\ built[i].label = l}
LastOf(S) == CHOOSE i \in S : \A j \in S : j <= i

\* C29: a.next(b, label), a >> b and (a - label) >> b each register b as the
\* successor of a under the label ("default" for >>) and return b, the left
\* operand of a chained >> being the node returned before: every node has
\* under every label the node of the last registration made on it under that
\* label and nothing under a label never registered on it, so a registration
\* leaves the other labels and the other nodes as they were; A >> B >> C gives
\* A the default successor B, B the default successor C and C no successor.
C29_GraphConstruction ==
    scenario = BuildScenario =>
        /\ \A n \in Nodes :
              /\ DOMAIN successors_[n] \subseteq BuildLabels
              /\ \A l \in BuildLabels :
                    IF RegistrationsOf(n, l) = {}
                    THEN /\ l \notin DOMAIN successors_[n]
                         /\ get_successor(successors_, n, l) = NoNode
                    ELSE get_successor(successors_, n, l)
                            = built[LastOf(RegistrationsOf(n, l))].node
        /\ (built # <<>> => returned = built[Len(built)].node)
        /\ \A i \in DOMAIN built :
              /\ (built[i].op \in {">>", "chain"} => built[i].label = "default")
              /\ (built[i].op = "chain" => i > 1 /\ built[i].src = built[i - 1].node)
        /\ (built = << [op |-> ">>", src |-> "A", node |-> "B", label |-> "default"],
                       [op |-> "chain", src |-> "B", node |-> "C", label |-> "default"] >> =>
               /\ get_successor(successors_, "A", "default") = "B"
               /\ get_successor(successors_, "B", "default") = "C"
               /\ successors_["C"] = <<>>
               /\ returned = "C")

C29_Witness ==
    /\ scenario = BuildScenario
    /\ Len(built) = 2
    /\ built[1].op = ">>"
    /\ built[2].op = "chain"
    /\ get_successor(successors_, "A", "default") = "B"
    /\ get_successor(successors_, "B", "default") = "C"
    /\ successors_["C"] = <<>>
    /\ returned = "C"

\* C30: when the concurrent traversals of an AsyncParallelBatchFlow activate
\* the same synchronous Node with max_retries_ = N >= 1, a traversal that has
\* ended has made the exec attempts its own failures call for (k + 1 when its
\* exec fails k < N times; N, followed by one exec_fallback call, when it
\* fails N times) and has not ended with the "Unexpected state in retry
\* logic" error.
C30_TraversalRetriesIndependent ==
    scenario = RaceScenario =>
        \A t \in DOMAIN threads :
            LET th == threads[t]
                N == max_retries_["B"]
            IN /\ th.exc # UnexpectedState
               /\ (th.st \in {"post", "write", "returned"} =>
                     /\ th.tries = AttemptsFor(th.fails, N)
                     /\ th.fbs = IF th.fails >= N THEN 1 ELSE 0)

\* a Flow or an AsyncFlow without nested flows is run
PlainFlowRuns ==
    /\ FlowClass(scenario) \in {"Flow", "AsyncFlow"}
    /\ scenario \notin {"nested", "async_nested"}
\* the successor the action of the last completed activation resolves to
LastResolution == get_next_node(successors_, Active, action_str(acts[Len(acts)]))
\* the model stops following a cycle at MaxVisits activations of one node
VisitBoundReached ==
    /\ pc \in {"orch", "aorch"}
    /\ current # NoNode
    /\ Count(trace, current) >= MaxVisits

\* C31: the loop of Flow::_orch and of AsyncFlow::_orch_async has no step or
\* cycle limit: a run has ended only because the action of the last activated
\* node resolved to no successor (or the flow has no start node) or because a
\* phase raised an error; as long as the resolution yields a node the loop
\* activates it, however many activations were made before, so that on a
\* cyclic graph the only stop is the bound put on the model.
C31_NoStepLimit ==
    PlainFlowRuns =>
        /\ (pc = "done" =>
              /\ current = NoNode
              /\ Len(acts) = Len(trace)
              /\ (trace # <<>> => LastResolution = NoNode))
        /\ (pc = "failed" => exc # NoExc)
        /\ (pc \in {"orch", "aorch"} /\ current # NoNode /\ trace # <<>> =>
              /\ Len(acts) = Len(trace)
              /\ current = LastResolution)
        /\ (~ENABLED Next => pc \in {"done", "failed"} \/ VisitBoundReached)

C31_Witness ==
    /\ scenario = "async_loop"
    /\ VisitBoundReached
    /\ current = "decision"
    /\ Len(trace) = 2 * MaxVisits
    /\ Count(trace, "search") = MaxVisits

\* the nodes registered as successors of node n
SuccessorsOf(succ, n) == {succ[n][l] : l \in DOMAIN succ[n]} \ {NoNode}
\* the nodes reached from the set S in one step or more, S being closed in k rounds
RECURSIVE ReachedFrom(_, _, _)
ReachedFrom(succ, S, k) ==
    LET T == S \cup UNION {SuccessorsOf(succ, n) : n \in S}
    IN IF k = 0 \/ T = S THEN S ELSE ReachedFrom(succ, T, k - 1)
Acyclic(succ) ==
    \A n \in Nodes : n \notin ReachedFrom(succ, SuccessorsOf(succ, n), Cardinality(Nodes))

\* the nodes activated so far form a path from the start node, every step
\* being the resolution of the action of the node before
TraceIsPath ==
    /\ (trace # <<>> => trace[1] = start_node_[TheFlow])
    /\ Len(trace) - 1 <= Len(acts)
    /\ \A i \in 1..(Len(trace) - 1) :
          trace[i + 1] = get_next_node(successors_, trace[i], action_str(acts[i]))

\* C32: on a graph whose successor relation is acyclic, a run of a Flow
\* activates every node at most once, the activated nodes are a path from the
\* start node that follows at each step the successor resolved from the
\* action of the node before, and the run always ends: with the result of the
\* flow when every phase returns, with the error of the phase that raised
\* otherwise.
C32_AcyclicFlowTerminates ==
    /\ [](Acyclic(successors_) =>
            /\ \A n \in Nodes : Count(trace, n) <= 1
            /\ TraceIsPath
            /\ (pc = "failed" => exc # NoExc))
    /\ (Acyclic(successors_) => <>(pc \in {"done", "failed"}))

C32_Witness ==
    /\ scenario = "branch_default"
    /\ Acyclic(successors_)
    /\ pc = "done"
    /\ trace = <<"decision", "D">>
    /\ acts = <<JStr("z"), JNull>>

\* C33: in a run of Flow::_orch on nodes that hold parameters of their own,
\* with flow parameters fp and call parameters cp: when one of fp and cp is
\* an object, every activated node holds exactly the overlay of fp with cp
\* from its activation on, none of its own keys being kept, and still holds
\* it when the run is over; when neither is an object an activated node still
\* holds its own parameters; a node that is not activated holds its own
\* parameters throughout.
C33_ParamsReplaced ==
    (scenario = "node_params" /\ pc # "start") =>
        LET fp == params_[TheFlow]
            cp == flow_prep
        IN \A n \in Nodes :
              IF Count(trace, n) > 0 /\ (is_object(fp) \/ is_object(cp))
              THEN /\ IsOverlay(params_[n], fp, cp)
                   /\ \A k \in Keys(OwnParams) \ (Keys(fp) \cup Keys(cp)) :
                         k \notin Keys(params_[n])
              ELSE params_[n] = OwnParams

C33_Witness ==
    /\ scenario = "node_params"
    /\ params_[TheFlow] = JNull
    /\ flow_prep = JObj("b" :> 2)
    /\ pc = "done"
    /\ trace = <<"B", "C">>
    /\ params_["B"] = JObj("b" :> 2)
    /\ params_["C"] = JObj("b" :> 2)
    /\ params_["A"] = OwnParams

\* the nodes activated whose post has returned and written to the context it
\* was given, the caller's unless the node keeps the default post_async
RECURSIVE VisibleWrites(_, _)
VisibleWrites(tr, k) ==
    IF k = 0 THEN <<>>
    ELSE LET before == VisibleWrites(tr, k - 1)
         IN IF DefaultBridges(scenario, tr[k]) THEN before ELSE Append(before, tr[k])

\* C34: an AsyncNode that keeps the default prep_async and post_async runs
\* its prep and post on copies of the context: once its post has returned,
\* the context of the caller holds no write of that post (it holds the writes
\* of the other nodes only), while the action the post returned is the
\* action of the activation: the result of run_async, or what the flow
\* routes on.
C34_DefaultBridgesCopyContext ==
    scenario \in {"single_default", "flow_default"} =>
        /\ shared = VisibleWrites(trace, Len(acts))
        /\ (scenario = "single_default" => shared = <<>>)
        /\ (scenario = "single_default" /\ pc = "done" =>
              /\ calls.post = 1
              /\ acts = <<action>>
              /\ result = action)
        /\ (scenario = "flow_default" /\ Len(acts) >= 2 =>
              /\ trace[2] = "B"
              /\ "B" \notin {shared[i] : i \in DOMAIN shared}
              /\ (Len(trace) >= 3 =>
                     trace[3] = get_next_node(successors_, "B", action_str(acts[2]))))

C34_Witness ==
    /\ scenario = "flow_default"
    /\ pc = "done"
    /\ trace = <<"A", "B", "C">>
    /\ acts = <<JStr("default"), JStr("default"), JStr("default")>>
    /\ shared = <<"A", "C">>

\* what a retry-controlled invocation ends with
Outcome(ok, val, err, made, fbs, fba) ==
    [ok |-> ok, val |-> val, err |-> err, tries |-> made, fbs |-> fbs, fb_args |-> fba]
\* the outcome of an invocation on `item` whose exec fails on its first f
\* calls, under N attempts and the fallback fk: f + 1 attempts and the value of
\* the last one when f < N; N attempts, then one fallback call on the item and
\* the error of the N-th attempt, whose result or error is the outcome
ExpectedOutcome(item, f, N, fk) ==
    LET r == Node_exec_fn(item, f, N, fk)
    IN Outcome(r.ok, r.val, r.err, AttemptsFor(f, N),
               IF f >= N THEN 1 ELSE 0,
               IF f >= N THEN <<item, ExecError(N)>> ELSE <<>>)

\* an invocation of Node::_exec on a plain Node has ended
SyncInvocationEnded ==
    /\ Len(trace) >= 1
    /\ kind[Active] = "Node"
    /\ plans # <<>>
    /\ \/ pc \in {"post", "route", "done"}
       \/ pc = "failed" /\ exc \notin {PrepError, PostError, CapabilityError}

\* C35: with max_retries_ = N >= 1 and the same input and the same failures of
\* the user's exec, Node::_exec and AsyncNode::_exec_async end in the same way:
\* the same number of exec attempts, the fallback called in the same case
\* (once, after the N-th failure, with the input and the error of the N-th
\* attempt), and the same result or the same error.
C35_AsyncRetryEqualsSync ==
    /\ (SyncInvocationEnded /\ max_retries_[Active] >= 1) =>
          Outcome(exc = NoExc \/ exc = PostError,
                  IF pc = "failed" THEN JNull ELSE exec_res,
                  IF pc = "failed" THEN exc ELSE NoExc,
                  tries, calls.fallback,
                  IF calls.fallback >= 1 THEN fb_args ELSE <<>>)
            = ExpectedOutcome(arg, fails, max_retries_[Active], fallback_kind[Active])
    /\ (current # NoNode /\ kind[current] = "AsyncNode" /\ max_retries_[current] >= 1) =>
          \A i \in DOMAIN tasks :
              LET t == tasks[i]
              IN Terminal(t) =>
                    Outcome(t.st = "ok", t.val, IF t.st = "ok" THEN NoExc ELSE t.err,
                            t.tries, t.fbs, t.fb_args)
                      = ExpectedOutcome(t.item, t.fails, max_retries_[current],
                                        fallback_kind[current])

C35_Witness ==
    /\ scenario = "single_async"
    /\ kind["A"] = "AsyncNode"
    /\ max_retries_["A"] = MaxAttempts
    /\ fallback_kind["A"] = "returns"
    /\ Len(tasks) = 1
    /\ tasks[1].fails = MaxAttempts
    /\ tasks[1].st = "ok"
    /\ tasks[1].tries = MaxAttempts
    /\ tasks[1].val = Node_exec_fn(tasks[1].item, MaxAttempts, MaxAttempts, "returns").val
    /\ pc = "done"

\* BatchNode or AsyncBatchNode run on its own
SequentialBatchRuns ==
    /\ BatchAdapterRuns
    /\ kind[Active] \in {"BatchNode", "AsyncBatchNode"}
\* the elements of the batch
BatchElements == IF is_array(prep_res) THEN prep_res.v ELSE <<prep_res>>
\* for each element the retry controller was invoked on, the number of
\* leading calls of the user's exec that fail
ElementPlans ==
    IF kind[Active] \in SyncKinds THEN plans
    ELSE [j \in DOMAIN tasks |-> tasks[j].fails]
\* what the retried invocation on element j ends with
ElementOutcome(j) ==
    IF kind[Active] \in SyncKinds
    THEN Node_exec_fn(BatchElements[j], ElementPlans[j],
                      max_retries_[Active], fallback_kind[Active])
    ELSE AsyncNode_exec_fn(BatchElements[j], ElementPlans[j],
                           max_retries_[Active], fallback_kind[Active])
\* the retried invocation on element j ends with an error
FailsTerminally(j) == ~ElementOutcome(j).ok
\* exec calls made on the elements 1..n
RECURSIVE ExecCallsUpTo(_)
ExecCallsUpTo(n) ==
    IF n = 0 THEN 0
    ELSE ExecCallsUpTo(n - 1) + AttemptsFor(ElementPlans[n], max_retries_[Active])
\* the run has failed inside the exec phase
FailedInExec ==
    pc = "failed" /\ exc \notin {PrepError, PostError, CapabilityError}

\* C36: in a BatchNode or AsyncBatchNode, the retry controller is invoked on an
\* element only when every element before it has yielded a value; when the
\* invocation on element i ends with an error (retries used up and the
\* fallback throws) the run ends there: no exec call for a later element, no
\* output (the values of elements 1..i-1 are not handed to anyone), no call of
\* post, and the error of element i is what the caller gets.
C36_SequentialBatchFailFast ==
    SequentialBatchRuns =>
        /\ Len(ElementPlans) <= Len(BatchElements)
        /\ \A j \in DOMAIN ElementPlans : j < Len(ElementPlans) => ~FailsTerminally(j)
        /\ calls.exec <= ExecCallsUpTo(Len(ElementPlans))
        /\ (calls.post >= 1 =>
              /\ Len(ElementPlans) = Len(BatchElements)
              /\ \A j \in DOMAIN ElementPlans : ~FailsTerminally(j))
        /\ (FailedInExec =>
              /\ Len(ElementPlans) >= 1
              /\ FailsTerminally(Len(ElementPlans))
              /\ exc = ElementOutcome(Len(ElementPlans)).err
              /\ calls.exec = ExecCallsUpTo(Len(ElementPlans))
              /\ calls.post = 0
              /\ post_args = <<>>
              /\ exec_res = JNull
              /\ result = JNull
              /\ ~ENABLED Next)

C36_Witness ==
    /\ scenario = "single_async"
    /\ kind["A"] = "AsyncBatchNode"
    /\ max_retries_["A"] = MaxAttempts
    /\ fallback_kind["A"] = "throws"
    /\ Len(BatchElements) = 2
    /\ Len(tasks) = 1
    /\ tasks[1].fails >= MaxAttempts
    /\ pc = "failed"
    /\ exc = FallbackError
    /\ calls.exec = MaxAttempts
    /\ calls.post = 0

\* the elements of a parallel batch whose task ends with an error: fixed at
\* launch by the input and the failures of the user's exec
FailingElements == {j \in DOMAIN tasks : FailsTerminally(j)}
MinOf(S) == CHOOSE i \in S : \A j \in S : i <= j

\* C37: in an AsyncParallelBatchNode the join loop reads the futures in input
\* order, so when the tasks of several elements end with an error, the error
\* run_async ends with is the one of the failing element of smallest index,
\* whichever task failed first; the join loop starts only after a task has
\* been launched for every element, and post_async is not called.
C37_ParallelBatchFirstError ==
    ParallelBatchRuns =>
        /\ (results # <<>> \/ pc \in {"par_unwind", "failed"} =>
              /\ items = <<>>
              /\ Len(tasks) = Len(BatchElements))
        /\ (FailingElements # {} =>
              /\ calls.post = 0
              /\ post_args = <<>>
              /\ pc \notin {"post_async", "done"}
              /\ Len(results) < MinOf(FailingElements))
        /\ (pc = "par_unwind" \/ FailedInExec =>
              /\ FailingElements # {}
              /\ Len(results) = MinOf(FailingElements) - 1
              /\ exc = tasks[MinOf(FailingElements)].err
              /\ exc = ElementOutcome(MinOf(FailingElements)).err)
        /\ (pc = "failed" => ~ENABLED Next)

C37_Witness ==
    /\ ParallelBatchRuns
    /\ fallback_kind["A"] = ItemFallback
    /\ prep_res = JArr(<<JNum(1), JNum(2)>>)
    /\ Len(tasks) = 2
    /\ tasks[1].st = "err"
    /\ tasks[2].st = "err"
    /\ tasks[2].ord = 1
    /\ tasks[1].ord = 2
    /\ tasks[1].err # tasks[2].err
    /\ pc = "failed"
    /\ exc = ItemError(JNum(1))
    /\ calls.post = 0

\* C38: a BatchFlow, AsyncBatchFlow or AsyncParallelBatchFlow whose prep output
\* is not an array (null, or one parameter object) starts no traversal: no node
\* is activated, no node phase is called, the context and the nodes'
\* parameters stay as they were, and the flow's post is called once, which
\* ends the run.  On an array every element, object or not, gets one
\* traversal; the traversal of an element that is not an object is called with
\* the flow's own parameters, nothing of the element added, and every node it
\* activates runs its phases with the flow's own parameters.
C38_BatchFlowDegenerateInputs ==
    (scenario \in BatchFlowScenarios /\ pc # "start") =>
        /\ flow_calls.prep = 1
        /\ flow_calls.post <= 1
        /\ (flow_calls.post = 1 <=> pc = "done")
        /\ (~is_array(flow_prep) =>
              /\ travs = <<>>
              /\ threads = <<>>
              /\ bf_rest = <<>>
              /\ trace = <<>>
              /\ current = NoNode
              /\ calls = NoCalls
              /\ shared = <<>>
              /\ \A n \in Nodes : params_[n] = JNull
              /\ pc # "failed"
              /\ pc \in {"bf_loop", "abf_loop", "apbf", "done"})
        /\ (is_array(flow_prep) =>
              /\ Len(travs) + Len(threads) + Len(bf_rest) = Len(flow_prep.v)
              /\ (pc = "done" => bf_rest = <<>>)
              /\ \A i \in DOMAIN travs :
                    /\ travs[i].p = flow_prep.v[i]
                    /\ (Len(trace) > travs[i].from =>
                          trace[travs[i].from + 1] = start_node_[TheFlow])
              /\ \A t \in DOMAIN threads :
                    ~is_object(flow_prep.v[t]) =>
                        /\ threads[t].p = params_[TheFlow]
                        /\ \A q \in threads[t].saw : q = params_[TheFlow]
              /\ (InLifecycle /\ ~is_object(flow_prep.v[Len(travs)]) =>
                    /\ orch_params = params_[TheFlow]
                    /\ params_[current] = params_[TheFlow]))

\* the retry controller has been invoked in the activation under way
ControllerInvoked == plans # <<>> \/ tasks # <<>>

\* C39: with max_retries_ <= 0 neither Node::_exec nor AsyncNode::_exec_async
\* enters its loop: the user's exec and exec_fallback are never called, the
\* invocation throws the runtime_error "Unexpected state in retry logic"
\* ("... in async retry logic" for the async controller), the node's post is
\* not called, no successor is activated, and the run ends with that error.
C39_NonPositiveAttempts ==
    (/\ scenario \in {"single", "single_async"} \cup FlowScenarios
     /\ Len(trace) >= 1
     /\ max_retries_[Active] <= 0) =>
        /\ calls.exec = 0
        /\ calls.fallback = 0
        /\ tries = 0
        /\ fb_args = <<>>
        /\ \A i \in DOMAIN tasks :
              /\ tasks[i].tries = 0
              /\ tasks[i].fbs = 0
              /\ tasks[i].st \in {"run", "err"}
              /\ (tasks[i].st = "err" => tasks[i].err = UnexpectedStateAsync)
        /\ (ControllerInvoked =>
              /\ calls.post = 0
              /\ post_args = <<>>
              /\ Len(trace) = 1
              /\ result = JNull
              /\ pc \notin {"post", "post_async", "done"}
              /\ (pc = "failed" =>
                    /\ exc = (IF plans # <<>> THEN UnexpectedState ELSE UnexpectedStateAsync)
                    /\ ~ENABLED Next)
              /\ (pc # "failed" => ENABLED Next))

C39_Witness ==
    /\ scenario = "single_async"
    /\ kind["A"] = "AsyncNode"
    /\ max_retries_["A"] = -1
    /\ Len(tasks) = 1
    /\ tasks[1].st = "err"
    /\ tasks[1].tries = 0
    /\ calls = [prep |-> 1, exec |-> 0, fallback |-> 0, post |-> 0]
    /\ pc = "failed"
    /\ exc = UnexpectedStateAsync

====
